---- MODULE Spec2Model ----
(***************************************************************************)
(* Verification model of the cooklang analysis pass (analysis/ast_walker)  *)
(* together with the quantity and converter pieces it calls.               *)
(*                                                                         *)
(* Conventions:                                                            *)
(*   - Rust Option<T> is a sequence: << >> is None, <<x>> is Some(x).       *)
(*   - Rust Vec<T> is a sequence; indices stored in the model are the      *)
(*     0-based indices the code stores, read back with At(v, k).           *)
(*   - A Span is <<line, item, part>>: the AST line, the item of the line  *)
(*     and the part of the component the span covers.                      *)
(*   - Modifiers (a bitflags set) is a set of flag names.                  *)
(***************************************************************************)
EXTENDS Integers, Sequences, FiniteSets, TLC

(* ------------------------------ bounds -------------------------------- *)
\* AST lines handed to the walker in the step-numbering specification
MaxLinesNumbering == 5

(* ------------------------------ options ------------------------------- *)
None == <<>>
Some(x) == <<x>>
IsSome(o) == o # <<>>
Unwrap(o) == o[1]
At(v, k) == v[k + 1]
Last(v) == v[Len(v)]

(* --------------------------- text utilities --------------------------- *)
\* Text::text_trimmed on the texts used for names, units, keys and values:
\* surrounding whitespace is removed
text_trimmed(t) ==
    CASE t = " salt " -> "salt"
      [] t = "Salt " -> "Salt"
      [] t = " min" -> "min"
      [] t = "kg " -> "kg"
      [] t = "cup " -> "cup"
      [] OTHER -> t

\* str::to_lowercase on component names
to_lowercase(s) ==
    CASE s = "Salt" -> "salt"
      [] s = "PAN" -> "pan"
      [] OTHER -> s

(* ------------------------------ converter ----------------------------- *)
\* an f64 that holds the fraction num / den, in lowest terms; the arithmetic
\* below is the arithmetic of the fractions, without the rounding of f64
RECURSIVE gcd(_, _)
gcd(a, b) == IF b = 0 THEN a ELSE gcd(b, a % b)
f64(num, den) ==
    LET reduce(g, s) == [num |-> (s * num) \div g, den |-> (s * den) \div g]
    IN reduce(gcd(IF num < 0 THEN -num ELSE num, IF den < 0 THEN -den ELSE den),
              IF den < 0 THEN -1 ELSE 1)
f64_add(x, y) == f64(x.num * y.den + y.num * x.den, x.den * y.den)
f64_sub(x, y) == f64(x.num * y.den - y.num * x.den, x.den * y.den)
f64_mul(x, y) == f64(x.num * y.num, x.den * y.den)
f64_div(x, y) == f64(x.num * y.den, x.den * y.num)
f64_abs(x) == IF x.num < 0 THEN f64(-x.num, x.den) ELSE x
f64_ge(x, y) == x.num * y.den >= y.num * x.den

\* the unit registry: key -> physical quantity of the unit
UnitIndex ==
    [u \in {"min", "kg", "g", "lb", "C", "K"} |->
        CASE u = "min" -> "Time"
          [] u = "kg" -> "Mass"
          [] u = "g" -> "Mass"
          [] u = "lb" -> "Mass"
          [] u = "C" -> "Temperature"
          [] u = "K" -> "Temperature"]

\* Converter::all_units: the Unit of every key, with its ratio to the base
\* unit of the physical quantity and its difference
all_units ==
    [u \in DOMAIN UnitIndex |->
        [symbol |-> u,
         ratio |-> CASE u = "kg" -> f64(1000, 1)
                     [] u = "lb" -> f64(4536, 10)
                     [] u = "min" -> f64(60, 1)
                     [] OTHER -> f64(1, 1),
         difference |-> IF u = "C" THEN f64(27315, 100) ELSE f64(0, 1),
         physical_quantity |-> UnitIndex[u],
         system |-> CASE u \in {"kg", "g"} -> <<"Metric">>
                      [] u = "lb" -> <<"Imperial">>
                      [] OTHER -> <<>>]]

\* Converter::default_system
default_system == "Metric"

\* Converter::best: the best-conversions store of every physical quantity,
\* its lists are pairs of a threshold in the base unit and a unit, lowest
\* threshold first
best ==
    [pq \in {"Mass", "Time", "Temperature"} |->
        CASE pq = "Mass" ->
                 [store |-> "BySystem",
                  metric |-> <<[th |-> f64(1, 1), unit |-> "g"],
                               [th |-> f64(1000, 1), unit |-> "kg"]>>,
                  imperial |-> <<[th |-> f64(1, 1), unit |-> "lb"]>>]
          [] pq = "Time" ->
                 [store |-> "Unified",
                  metric |-> <<[th |-> f64(1, 1), unit |-> "min"]>>,
                  imperial |-> <<[th |-> f64(1, 1), unit |-> "min"]>>]
          [] pq = "Temperature" ->
                 [store |-> "Unified",
                  metric |-> <<[th |-> f64(0, 1), unit |-> "C"]>>,
                  imperial |-> <<[th |-> f64(0, 1), unit |-> "C"]>>]]

\* Converter::get_unit: Ok(unit) or Err(UnknownUnit)
get_unit(key) ==
    IF key \in DOMAIN UnitIndex
    THEN [ok |-> TRUE, physical_quantity |-> UnitIndex[key], symbol |-> key]
    ELSE [ok |-> FALSE, physical_quantity |-> "-", symbol |-> "-"]

\* UnitInfo::new / QuantityUnit::unit_info_or_parse
unit_info_or_parse(text) ==
    LET u == get_unit(text)
    IN IF u.ok THEN [info |-> "Known", physical_quantity |-> u.physical_quantity,
                     symbol |-> u.symbol]
               ELSE [info |-> "Unknown", physical_quantity |-> "-", symbol |-> "-"]

(* ------------------------------ quantity ------------------------------ *)
\* Value: Number{n / 10^d}, Range{n..=n+1} or Text{n-th text}
Number(n, d) == [t |-> "Number", n |-> n, d |-> d]
Range(n) == [t |-> "Range", n |-> n, d |-> 0]
Text(n) == [t |-> "Text", n |-> n, d |-> 0]

\* Value::is_text
is_text(v) == v.t = "Text"

\* QuantityValue::from_ast
from_ast(value) ==
    IF value.k = "Single"
    THEN IF value.auto_scale = None
         THEN [k |-> "Fixed", values |-> <<value.values[1]>>]
         ELSE [k |-> "Linear", values |-> <<value.values[1]>>]
    ELSE [k |-> "ByServings", values |-> value.values]

\* QuantityValue::contains_text_value
contains_text_value(qv) == \E i \in 1..Len(qv.values) : is_text(qv.values[i])

\* Quantity::new
Quantity_new(value, unit) == [value |-> value, unit |-> unit]

\* compatible_unit that takes the unit of rhs as the common unit
compatible_unit_rhs_base(a, b) ==
    LET Ok(base) == [err |-> "ok", base |-> base]
        Err(e) == [err |-> e, base |-> None]
        units(a_unit, b_unit) ==
            IF a_unit.info = "Known" /\ b_unit.info = "Known"
            THEN IF a_unit.physical_quantity # b_unit.physical_quantity
                 THEN Err("DifferentPhysicalQuantities")
                 ELSE Ok(Some(b_unit.symbol))
            ELSE IF Unwrap(a.unit) # Unwrap(b.unit)
                 THEN Err("UnknownDifferentUnits")
                 ELSE Ok(None)
    IN  IF a.unit = None /\ b.unit = None THEN Ok(None)
        ELSE IF a.unit = None \/ b.unit = None THEN Err("MissingUnit")
        ELSE units(unit_info_or_parse(Unwrap(a.unit)),
                   unit_info_or_parse(Unwrap(b.unit)))

\* Quantity::compatible_unit: err is "ok" or the IncompatibleUnits variant,
\* base the common unit of Ok
compatible_unit(a, b) ==
    LET Ok(base) == [err |-> "ok", base |-> base]
        Err(e) == [err |-> e, base |-> None]
        units(a_unit, b_unit) ==
            IF a_unit.info = "Known" /\ b_unit.info = "Known"
            THEN IF a_unit.physical_quantity # b_unit.physical_quantity
                 THEN Err("DifferentPhysicalQuantities")
                 ELSE Ok(Some(a_unit.symbol))
            ELSE IF Unwrap(a.unit) # Unwrap(b.unit)
                 THEN Err("UnknownDifferentUnits")
                 ELSE Ok(None)
    IN  IF a.unit = None /\ b.unit = None THEN Ok(None)
        ELSE IF a.unit = None \/ b.unit = None THEN Err("MissingUnit")
        ELSE units(unit_info_or_parse(Unwrap(a.unit)),
                   unit_info_or_parse(Unwrap(b.unit)))

(* ------------------------- diagnostics context ------------------------ *)
Diag(kind, span, data) == [kind |-> kind, span |-> span, data |-> data]
NoData == [none |-> TRUE]

\* Context::error
error(self, e) == [self EXCEPT !.context.errors = Append(@, e)]
\* Context::warn
warn(self, w) == [self EXCEPT !.context.warnings = Append(@, w)]
\* Context::finish: the value is kept only when no error was recorded
finish(ctx, value) ==
    [value |-> IF ctx.errors = <<>> THEN value ELSE None,
     errors |-> ctx.errors,
     warnings |-> ctx.warnings]

HasDiag(list, kind, span) ==
    \E i \in 1..Len(list) : list[i].kind = kind /\ list[i].span = span

(* ------------------------------- walker ------------------------------- *)
\* extension flags the walker reads
MODES == "MODES"
ADVANCED_UNITS == "ADVANCED_UNITS"
TEMPERATURE == "TEMPERATURE"

Span(line, item, part) == <<line, item, part>>

\* a check of a Many value that only looks for the presence of servings
value_check_presence(self, v, at) ==
    IF v.k = "Single" /\ IsSome(v.auto_scale)
    THEN error(self, Diag("ScaleTextValue", Span(at[1], at[2], "value"), NoData))
    ELSE IF v.k = "Many" /\ ~IsSome(self.content.metadata.servings)
    THEN error(self, Diag("ScalableValueManyConflict",
             Span(at[1], at[2], "value"),
             [servings |-> None, values |-> Len(v.values),
              servings_meta_span |-> None]))
    ELSE self

\* Walker::value, the match on the AST value: the diagnostics of a quantity
\* value. at is <<line, item>> of the component that holds the value.
value_check(self, v, at) ==
    IF v.k = "Single" /\ IsSome(v.auto_scale)
    THEN error(self, Diag("ScaleTextValue", Span(at[1], at[2], "value"), NoData))
    ELSE IF v.k = "Many"
    THEN IF IsSome(self.content.metadata.servings)
         THEN IF Len(Unwrap(self.content.metadata.servings)) # Len(v.values)
              THEN error(self, Diag("ScalableValueManyConflict",
                       Span(at[1], at[2], "value"),
                       [servings |-> Some(Len(Unwrap(self.content.metadata.servings))),
                        values |-> Len(v.values),
                        servings_meta_span |->
                           IF \E m \in self.metadata_locations : m[1] = <<"servings">>
                           THEN Some((CHOOSE m \in self.metadata_locations :
                                          m[1] = <<"servings">>)[2])
                           ELSE None]))
              ELSE self
         ELSE error(self, Diag("ScalableValueManyConflict",
                  Span(at[1], at[2], "value"),
                  [servings |-> None, values |-> Len(v.values),
                   servings_meta_span |-> None]))
    ELSE self

\* an auto-scale mode that is applied to the values of every component
value_auto_scale_everywhere(self, v1, is_ingredient, at) ==
    IF self.auto_scale_ingredients
    THEN IF v1.k = "Fixed" /\ ~is_text(v1.values[1])
         THEN [self |-> self, v |-> [v1 EXCEPT !.k = "Linear"]]
         ELSE IF v1.k = "Linear"
         THEN [self |-> warn(self, Diag("RedundantAutoScaleMarker",
                                        Span(at[1], at[2], "marker"), NoData)),
               v |-> v1]
         ELSE [self |-> self, v |-> v1]
    ELSE [self |-> self, v |-> v1]

\* Walker::value, after from_ast: the auto-scale mode of ingredients
value_auto_scale(self, v1, is_ingredient, at) ==
    IF is_ingredient /\ self.auto_scale_ingredients
    THEN IF v1.k = "Fixed" /\ ~is_text(v1.values[1])
         THEN [self |-> self, v |-> [v1 EXCEPT !.k = "Linear"]]
         ELSE IF v1.k = "Linear"
         THEN [self |-> warn(self, Diag("RedundantAutoScaleMarker",
                                        Span(at[1], at[2], "marker"), NoData)),
               v |-> v1]
         ELSE [self |-> self, v |-> v1]
    ELSE [self |-> self, v |-> v1]

\* Walker::value: returns the walker and the lowered value
value(self, v, is_ingredient, at) ==
    value_auto_scale(value_check(self, v, at), from_ast(v), is_ingredient, at)

OptTrim(t) == IF IsSome(t) THEN Some(text_trimmed(Unwrap(t))) ELSE None

\* Walker::quantity: returns the walker and the model quantity
quantity(self, q, is_ingredient, at) ==
    LET
        \* Walker::quantity, the Quantity::new of the lowered value and trimmed unit
        quantity_new_of(r, unit) ==
            [self |-> r.self, q |-> Quantity_new(r.v, OptTrim(unit))]
    IN
        quantity_new_of(value(self, q.value, is_ingredient, at), q.unit)

\* a unit check that does not look at the extensions
timer_unit_check_always(self, q, at) ==
    IF IsSome(q.unit)
    THEN IF unit_info_or_parse(Unwrap(q.unit)).info = "Known"
         THEN IF unit_info_or_parse(Unwrap(q.unit)).physical_quantity # "Time"
              THEN error(self, Diag("BadTimerUnit", Span(at[1], at[2], "unit"),
                                    [unit |-> Unwrap(q.unit)]))
              ELSE self
         ELSE error(self, Diag("UnknownTimerUnit", Span(at[1], at[2], "component"),
                               [unit |-> Unwrap(q.unit)]))
    ELSE self

\* Walker::timer, the unit check of a timer quantity under ADVANCED_UNITS
timer_unit_check(self, q, at) ==
    IF ADVANCED_UNITS \in self.extensions /\ IsSome(q.unit)
    THEN IF unit_info_or_parse(Unwrap(q.unit)).info = "Known"
         THEN IF unit_info_or_parse(Unwrap(q.unit)).physical_quantity # "Time"
              THEN error(self, Diag("BadTimerUnit", Span(at[1], at[2], "unit"),
                                    [unit |-> Unwrap(q.unit)]))
              ELSE self
         ELSE error(self, Diag("UnknownTimerUnit", Span(at[1], at[2], "component"),
                               [unit |-> Unwrap(q.unit)]))
    ELSE self

\* Walker::timer: returns the walker and the index of the new timer
timer(self, t, at) ==
    LET
        \* Walker::timer, the closure mapped over the AST quantity
        timer_quantity(r, a) ==
            [self |-> timer_unit_check(r.self, r.q, a), q |-> Some(r.q)]

        \* the index returned after a push: len() - 1
        timer_index(s) == [self |-> s, index |-> Len(s.content.timers) - 1]

        \* Walker::timer, the push of the new timer
        timer_push(r, t0) ==
            timer_index([r.self EXCEPT !.content.timers =
                            Append(@, [name |-> OptTrim(t0.name), quantity |-> r.q])])
    IN
        timer_push(IF IsSome(t.quantity)
                   THEN timer_quantity(quantity(self, Unwrap(t.quantity), FALSE, at), at)
                   ELSE [self |-> self, q |-> None],
                   t)

\* RefComponent::all
all(content, kind) ==
    IF kind = "ingredient" THEN content.ingredients ELSE content.cookware

\* one mask for both kinds, the one of the ingredients
inherit_modifiers_of_ingredient(kind) == {"HIDDEN", "OPT", "RECIPE"}

\* RefComponent::inherit_modifiers
inherit_modifiers(kind) ==
    IF kind = "ingredient" THEN {"HIDDEN", "OPT", "RECIPE"} ELSE {"HIDDEN", "OPT"}

\* RefComponent::set_reference
set_reference(new, kind, references_to) ==
    IF kind = "ingredient"
    THEN [new EXCEPT !.relation = [kind |-> "Reference", index |-> references_to,
                                   target |-> "IngredientTarget"]]
    ELSE [new EXCEPT !.relation = [kind |-> "Reference", index |-> references_to]]

\* a back link that records the index of the definition instead of the index
\* of the new component
set_referenced_from_target(self, kind, references_to) ==
    IF At(all(self.content, kind), references_to).relation.kind = "Definition"
    THEN IF kind = "ingredient"
         THEN [self EXCEPT !.content.ingredients[references_to + 1].relation.referenced_from
                               = Append(@, references_to)]
         ELSE [self EXCEPT !.content.cookware[references_to + 1].relation.referenced_from
                               = Append(@, references_to)]
    ELSE [self EXCEPT !.panic = "Reference to reference"]

\* RefComponent::set_referenced_from: pushes the index the new component is
\* about to get (all.len()); a target that is itself a reference is the panic
\* "Reference to reference"
set_referenced_from(self, kind, references_to) ==
    IF At(all(self.content, kind), references_to).relation.kind = "Definition"
    THEN IF kind = "ingredient"
         THEN [self EXCEPT !.content.ingredients[references_to + 1].relation.referenced_from
                               = Append(@, Len(self.content.ingredients))]
         ELSE [self EXCEPT !.content.cookware[references_to + 1].relation.referenced_from
                               = Append(@, Len(self.content.cookware))]
    ELSE [self EXCEPT !.panic = "Reference to reference"]

\* a lookup that also accepts components that carry the REF modifier
same_name_hits_with_ref(list, new_name) ==
    {i \in 1..Len(list) : new_name = to_lowercase(list[i].name)}

\* a lookup that compares the new lowercase name with the names as written
same_name_hits_exact_case(list, new_name) ==
    {i \in 1..Len(list) :
        "REF" \notin list[i].modifiers /\ new_name = list[i].name}

\* the components a new one of this lowercase name may refer to: no REF
\* modifier and the same lowercase name
same_name_hits(list, new_name) ==
    {i \in 1..Len(list) :
        "REF" \notin list[i].modifiers /\ new_name = to_lowercase(list[i].name)}

\* Walker::resolve_reference: returns the walker, the (possibly changed) new
\* component and Option<(references_to, implicit)>
resolve_reference(self, new, kind, at) ==
    LET
        \* rposition: the LAST of them (0-based), None when there is none
        same_name_of(list, new_name) ==
            IF same_name_hits(list, new_name) = {} THEN None
            ELSE Some((CHOOSE i \in same_name_hits(list, new_name) :
                          \A j \in same_name_hits(list, new_name) : j <= i) - 1)

        \* Walker::resolve_reference, the redundant reference modifier warning
        resolve_warn(s, n, a) ==
            IF (s.duplicate_mode = "Reference" \/ s.define_mode = "Steps")
               /\ "REF" \in n.modifiers /\ "NEW" \notin n.modifiers
            THEN warn(s, Diag("RedundantReferenceModifier", Span(a[1], a[2], "modifiers"),
                                 [modifiers |-> n.modifiers]))
            ELSE s

        \* Walker::resolve_reference, the new component becomes a reference to
        \* references_to; inherited is the modifier set taken from the definition
        reference_to(s, n, k, references_to, inherited, a0) ==
            LET conflict == ((n.modifiers \ inherited) \ {"REF"}) \cup (n.modifiers \cap {"NEW"})
                implicit == "REF" \notin (n.modifiers \cup inherited)
            IN [self |-> IF conflict # {}
                         THEN error(s, Diag("ConflictingModifiersInReference",
                                        Span(a0[1], a0[2], "modifiers"),
                                        [modifiers |-> n.modifiers \cup inherited \cup {"REF"},
                                         conflict |-> conflict,
                                         implicit |-> implicit]))
                         ELSE s,
                new |-> set_reference([n EXCEPT !.modifiers = @ \cup inherited \cup {"REF"}],
                                      k, references_to),
                res |-> Some(<<references_to, implicit>>)]

        \* Walker::resolve_reference after the warning, same_name is the rposition
        resolve_decide(s, n, k, same_name, a) ==
            IF {"NEW", "REF"} \subseteq n.modifiers
            THEN [self |-> error(s, Diag("ConflictingModifiersInReference",
                                            Span(a[1], a[2], "modifiers"),
                                            [modifiers |-> n.modifiers,
                                             conflict |-> n.modifiers,
                                             implicit |-> FALSE])),
                  new |-> n, res |-> None]
            ELSE IF /\ "NEW" \notin n.modifiers
                    /\ \/ "REF" \in n.modifiers
                       \/ s.define_mode = "Steps"
                       \/ (IsSome(same_name) /\ s.duplicate_mode = "Reference")
            THEN IF IsSome(same_name)
                 THEN reference_to(s, n, k, Unwrap(same_name),
                                   At(all(s.content, k), Unwrap(same_name)).modifiers
                                       \cap inherit_modifiers(k),
                                   a)
                 ELSE [self |-> error(s, Diag("ReferenceNotFound",
                                                 Span(a[1], a[2], "component"),
                                                 [name |-> n.name])),
                       new |-> n, res |-> None]
            ELSE [self |-> s, new |-> n, res |-> None]
    IN
        resolve_decide(resolve_warn(self, new, at), new, kind,
                       same_name_of(all(self.content, kind), to_lowercase(new.name)), at)

\* Step::is_text: a text step carries no number
Step_is_text(step) == step.number = None

\* Section::is_empty
Section_is_empty(section) == section.name = None /\ section.steps = <<>>

\* Section::new
Section_new(name) == [name |-> name, steps |-> <<>>]

\* a resolution that accepts the index one past the last step
resolve_intermediate_ref_inclusive(self, inter_data, at) ==
    LET
        \* index (0-based) of the val-th non-text step counted from the end of the
        \* steps, None when there are fewer: .iter().enumerate().rev().filter().nth()
        nth_non_text_rev(steps, val) ==
            LET hits == {i \in 1..Len(steps) :
                            /\ ~Step_is_text(steps[i])
                            /\ Cardinality({j \in i..Len(steps) : ~Step_is_text(steps[j])}) = val}
            IN IF hits = {} THEN None ELSE Some((CHOOSE i \in hits : TRUE) - 1)
    IN
        LET val == inter_data.val
            span == Span(at[1], at[2], "intermediate")
            Err(reason) == [ok |-> FALSE,
                            err |-> Diag("InvalidIntermediateReferece", span,
                                         [reason |-> reason])]
            Ok(index, target) == [ok |-> TRUE,
                                  relation |-> [kind |-> "Reference", index |-> index,
                                                target |-> target]]
        IN IF val = 0 /\ inter_data.ref_mode = "Relative"
           THEN Err("relative reference not positive")
           ELSE IF inter_data.target_kind = "Step" /\ inter_data.ref_mode = "Index"
           THEN IF val > Len(self.current_section.steps)
                THEN Err("step index out of bounds")
                ELSE Ok(val, "StepTarget")
           ELSE IF inter_data.target_kind = "Step"
           THEN LET index == nth_non_text_rev(self.current_section.steps,
                                              IF val = 0 THEN 1 ELSE val)
                IN IF IsSome(index)
                   THEN Ok(Unwrap(index), "StepTarget")
                   ELSE Err("relative step index out of bounds")
           ELSE IF inter_data.ref_mode = "Index"
           THEN IF val >= Len(self.content.sections)
                THEN Err("section index out of bounds")
                ELSE Ok(val, "SectionTarget")
           ELSE IF val > Len(self.content.sections)
                THEN Err("relative section index out of bounds")
                ELSE Ok(Len(self.content.sections) - val, "SectionTarget")

\* Walker::resolve_intermediate_ref: Ok(relation) or Err(error)
resolve_intermediate_ref(self, inter_data, at) ==
    LET
        \* index (0-based) of the val-th non-text step counted from the end of the
        \* steps, None when there are fewer: .iter().enumerate().rev().filter().nth()
        nth_non_text_rev(steps, val) ==
            LET hits == {i \in 1..Len(steps) :
                            /\ ~Step_is_text(steps[i])
                            /\ Cardinality({j \in i..Len(steps) : ~Step_is_text(steps[j])}) = val}
            IN IF hits = {} THEN None ELSE Some((CHOOSE i \in hits : TRUE) - 1)
    IN
        LET val == inter_data.val
            span == Span(at[1], at[2], "intermediate")
            Err(reason) == [ok |-> FALSE,
                            err |-> Diag("InvalidIntermediateReferece", span,
                                         [reason |-> reason])]
            Ok(index, target) == [ok |-> TRUE,
                                  relation |-> [kind |-> "Reference", index |-> index,
                                                target |-> target]]
        IN IF val = 0 /\ inter_data.ref_mode = "Relative"
           THEN Err("relative reference not positive")
           ELSE IF inter_data.target_kind = "Step" /\ inter_data.ref_mode = "Index"
           THEN IF val >= Len(self.current_section.steps)
                THEN Err("step index out of bounds")
                ELSE Ok(val, "StepTarget")
           ELSE IF inter_data.target_kind = "Step"
           THEN LET index == nth_non_text_rev(self.current_section.steps,
                                              IF val = 0 THEN 1 ELSE val)
                IN IF IsSome(index)
                   THEN Ok(Unwrap(index), "StepTarget")
                   ELSE Err("relative step index out of bounds")
           ELSE IF inter_data.ref_mode = "Index"
           THEN IF val >= Len(self.content.sections)
                THEN Err("section index out of bounds")
                ELSE Ok(val, "SectionTarget")
           ELSE IF val > Len(self.content.sections)
                THEN Err("relative section index out of bounds")
                ELSE Ok(Len(self.content.sections) - val, "SectionTarget")

\* the IncompatibleUnits warnings of Walker::ingredient, one check of the loop: the quantity of the ingredient at index against
\* the new quantity
unit_warning(self, index, new_quantity, at) ==
    IF IsSome(At(self.content.ingredients, index).quantity)
       /\ compatible_unit(Unwrap(At(self.content.ingredients, index).quantity),
                          new_quantity).err # "ok"
    THEN warn(self, Diag("IncompatibleUnits", Span(at[1], at[2], "unit"),
                 [a |-> At(self.ingredient_locations, index),
                  source |-> compatible_unit(
                                 Unwrap(At(self.content.ingredients, index).quantity),
                                 new_quantity).err]))
    ELSE self

\* the loop over the definition and its earlier references, in that order
RECURSIVE unit_warnings(_, _, _, _)
unit_warnings(self, indices, new_quantity, at) ==
    IF indices = <<>> THEN self
    ELSE unit_warnings(unit_warning(self, Head(indices), new_quantity, at),
                       Tail(indices), new_quantity, at)

\* a quantity clash that ignores where the definition was made
ref_quantities_anywhere(self, new_igr, references_to, at) ==
    IF IsSome(At(self.content.ingredients, references_to).quantity)
       /\ IsSome(new_igr.quantity)
    THEN error(self, Diag("ConflictingReferenceQuantities",
                          Span(at[1], at[2], "component"),
                          [ingredient_name |-> new_igr.name,
                           definition_span |->
                              At(self.ingredient_locations, references_to)]))
    ELSE self

\* Walker::ingredient on a reference to references_to: quantity clash
ref_quantities(self, new_igr, references_to, at) ==
    IF IsSome(At(self.content.ingredients, references_to).quantity)
       /\ IsSome(new_igr.quantity)
       /\ ~At(self.content.ingredients, references_to).defined_in_step
    THEN error(self, Diag("ConflictingReferenceQuantities",
                          Span(at[1], at[2], "component"),
                          [ingredient_name |-> new_igr.name,
                           definition_span |->
                              At(self.ingredient_locations, references_to)]))
    ELSE self

\* an index that is taken after the push without the - 1
ingredient_index_len(self) == [self |-> self, index |-> Len(self.content.ingredients)]

\* the index returned after a push: len() - 1
ingredient_index(self) == [self |-> self, index |-> Len(self.content.ingredients) - 1]

\* Walker::ingredient: returns the walker and the index of the new ingredient;
\* a failed assertion sets self.panic and nothing is pushed
ingredient(self, i, at) ==
    LET
        \* Option::map over a lowered quantity or value
        some_quantity(r) == [self |-> r.self, q |-> Some(r.q)]

        \* Walker::ingredient on a reference: unit compatibility with the definition
        \* and its earlier references
        ref_units(s, new_igr, references_to, a0) ==
            IF ADVANCED_UNITS \in s.extensions /\ IsSome(new_igr.quantity)
            THEN unit_warnings(s,
                     <<references_to>> \o
                         At(s.content.ingredients, references_to).relation.referenced_from,
                     Unwrap(new_igr.quantity), a0)
            ELSE s

        \* Walker::ingredient on a reference: a note is not allowed
        ref_note(s, i0, implicit, a0) ==
            IF IsSome(i0.note)
            THEN error(s, Diag("ComponentPartNotAllowedInReference",
                                  Span(a0[1], a0[2], "note"),
                                  [container |-> "ingredient", what |-> "note",
                                   implicit |-> implicit]))
            ELSE s

        \* Walker::ingredient on a reference: a text value
        ref_text_value(s, new_igr, a0) ==
            IF IsSome(new_igr.quantity) /\ contains_text_value(Unwrap(new_igr.quantity).value)
            THEN warn(s, Diag("TextValueInReference", Span(a0[1], a0[2], "quantity"), NoData))
            ELSE s

        \* the part of Walker::ingredient that runs when resolve_reference made the
        \* new ingredient a reference
        ingredient_reference(s, i0, new_igr, references_to, implicit, a0) ==
            set_referenced_from(
                ref_text_value(
                    ref_note(
                        ref_units(
                            ref_quantities(s, new_igr, references_to, a0),
                            new_igr, references_to, a0),
                        i0, implicit, a0),
                    new_igr, a0),
                "ingredient", references_to)

        \* Walker::ingredient, the recipe reference check
        recipe_check(s, new_igr, a) ==
            IF "RECIPE" \in new_igr.modifiers /\ "REF" \notin new_igr.modifiers
               /\ IsSome(s.recipe_ref_checker)
               /\ new_igr.name \notin Unwrap(s.recipe_ref_checker)
            THEN warn(s, Diag("RecipeNotFound", Span(a[1], a[2], "component"),
                                 [name |-> new_igr.name]))
            ELSE s

        \* Walker::ingredient, the two pushes
        ingredient_pushes(s, new_igr, a) ==
            ingredient_index([s EXCEPT
                !.ingredient_locations = Append(@, Span(a[1], a[2], "component")),
                !.content.ingredients = Append(@, new_igr)])

        \* the tail of Walker::ingredient: recipe check and the two pushes; nothing
        \* is pushed once the walker panicked
        ingredient_push(s, new_igr, a) ==
            IF s.panic # "none" THEN [self |-> s, index |-> 0]
            ELSE ingredient_pushes(recipe_check(s, new_igr, a), new_igr, a)

        \* Walker::ingredient with intermediate data, r is the result of
        \* resolve_intermediate_ref
        ingredient_intermediate(s, new_igr, r, a) ==
            IF r.ok
            THEN IF "REF" \notin new_igr.modifiers
                 THEN [self |-> [s EXCEPT !.panic =
                                    "assertion failed: modifiers.contains(REF)"],
                       index |-> 0]
                 ELSE ingredient_push(
                          IF new_igr.modifiers \cap {"RECIPE", "HIDDEN", "NEW"} # {}
                          THEN error(s, Diag("InvalidIntermediateReferece",
                                         Span(a[1], a[2], "modifiers"),
                                         [reason |-> "Invalid combination of modifiers"]))
                          ELSE s,
                          [new_igr EXCEPT !.relation = r.relation], a)
            ELSE ingredient_push(error(s, r.err), new_igr, a)

        \* Walker::ingredient without intermediate data, rr is the result of
        \* resolve_reference
        ingredient_resolved(rr, i0, a) ==
            IF IsSome(rr.res)
            THEN ingredient_push(
                     ingredient_reference(rr.self, i0, rr.new,
                                          Unwrap(rr.res)[1], Unwrap(rr.res)[2], a),
                     rr.new, a)
            ELSE ingredient_push(rr.self, rr.new, a)

        \* Walker::ingredient once the preliminary new_igr is built
        ingredient_relation(s, new_igr, i0, a) ==
            IF IsSome(i0.intermediate_data)
            THEN IF Unwrap(i0.intermediate_data).val < 0
                 THEN [self |-> [s EXCEPT !.panic = "assertion failed: !val.is_negative()"],
                       index |-> 0]
                 ELSE ingredient_intermediate(s, new_igr,
                          resolve_intermediate_ref(s, Unwrap(i0.intermediate_data), a), a)
            ELSE ingredient_resolved(resolve_reference(s, new_igr, "ingredient", a), i0, a)

        \* Walker::ingredient, the preliminary ingredient; rq is the walker and the
        \* lowered quantity
        ingredient_new(rq, i0, a) ==
            ingredient_relation(rq.self,
                [name |-> text_trimmed(i0.name),
                 alias |-> OptTrim(i0.alias),
                 quantity |-> rq.q,
                 note |-> OptTrim(i0.note),
                 modifiers |-> i0.modifiers,
                 relation |-> [kind |-> "Definition", referenced_from |-> <<>>],
                 defined_in_step |-> (rq.self.define_mode # "Components")],
                i0, a)
    IN
        ingredient_new(IF IsSome(i.quantity)
                       THEN some_quantity(quantity(self, Unwrap(i.quantity), TRUE, at))
                       ELSE [self |-> self, q |-> None],
                       i, at)

\* a cookware that lets a reference carry a quantity
cookware_quantity_allowed(self, c, at) ==
    LET
        some_value(r) == [self |-> r.self, q |-> Some(r.v)]

        \* the index returned after a push: len() - 1
        cookware_index(s) == [self |-> s, index |-> Len(s.content.cookware) - 1]

        \* Walker::cookware, the push
        cookware_push(s, new_cw) ==
            IF s.panic # "none" THEN [self |-> s, index |-> 0]
            ELSE cookware_index([s EXCEPT !.content.cookware = Append(@, new_cw)])

        \* Walker::cookware on a reference: neither note nor quantity is allowed
        cookware_note(s, c0, implicit, a0) ==
            IF IsSome(c0.note)
            THEN error(s, Diag("ComponentPartNotAllowedInReference",
                                  Span(a0[1], a0[2], "note"),
                                  [container |-> "cookware", what |-> "note",
                                   implicit |-> implicit]))
            ELSE s

        cookware_quantity(s, c0, implicit, a) == s

        \* Walker::cookware, rr is the result of resolve_reference
        cookware_resolved(rr, c0, a) ==
            IF IsSome(rr.res)
            THEN cookware_push(
                     set_referenced_from(
                         cookware_quantity(
                             cookware_note(rr.self, c0, Unwrap(rr.res)[2], a),
                             c0, Unwrap(rr.res)[2], a),
                         "cookware", Unwrap(rr.res)[1]),
                     rr.new)
            ELSE cookware_push(rr.self, rr.new)

        \* Walker::cookware, the preliminary cookware; rv is the walker and the
        \* lowered quantity value
        cookware_new(rv, c0, a) ==
            cookware_resolved(
                resolve_reference(rv.self,
                    [name |-> text_trimmed(c0.name),
                     alias |-> OptTrim(c0.alias),
                     quantity |-> rv.q,
                     note |-> OptTrim(c0.note),
                     modifiers |-> c0.modifiers,
                     relation |-> [kind |-> "Definition", referenced_from |-> <<>>]],
                    "cookware", a),
                c0, a)
    IN
        cookware_new(IF IsSome(c.quantity)
                     THEN some_value(value(self, Unwrap(c.quantity), FALSE, at))
                     ELSE [self |-> self, q |-> None],
                     c, at)

\* Walker::cookware: returns the walker and the index of the new cookware
cookware(self, c, at) ==
    LET
        some_value(r) == [self |-> r.self, q |-> Some(r.v)]

        \* the index returned after a push: len() - 1
        cookware_index(s) == [self |-> s, index |-> Len(s.content.cookware) - 1]

        \* Walker::cookware, the push
        cookware_push(s, new_cw) ==
            IF s.panic # "none" THEN [self |-> s, index |-> 0]
            ELSE cookware_index([s EXCEPT !.content.cookware = Append(@, new_cw)])

        \* Walker::cookware on a reference: neither note nor quantity is allowed
        cookware_note(s, c0, implicit, a0) ==
            IF IsSome(c0.note)
            THEN error(s, Diag("ComponentPartNotAllowedInReference",
                                  Span(a0[1], a0[2], "note"),
                                  [container |-> "cookware", what |-> "note",
                                   implicit |-> implicit]))
            ELSE s

        cookware_quantity(s, c0, implicit, a) ==
            IF IsSome(c0.quantity)
            THEN error(s, Diag("ComponentPartNotAllowedInReference",
                                  Span(a[1], a[2], "quantity"),
                                  [container |-> "cookware", what |-> "quantity",
                                   implicit |-> implicit]))
            ELSE s

        \* Walker::cookware, rr is the result of resolve_reference
        cookware_resolved(rr, c0, a) ==
            IF IsSome(rr.res)
            THEN cookware_push(
                     set_referenced_from(
                         cookware_quantity(
                             cookware_note(rr.self, c0, Unwrap(rr.res)[2], a),
                             c0, Unwrap(rr.res)[2], a),
                         "cookware", Unwrap(rr.res)[1]),
                     rr.new)
            ELSE cookware_push(rr.self, rr.new)

        \* Walker::cookware, the preliminary cookware; rv is the walker and the
        \* lowered quantity value
        cookware_new(rv, c0, a) ==
            cookware_resolved(
                resolve_reference(rv.self,
                    [name |-> text_trimmed(c0.name),
                     alias |-> OptTrim(c0.alias),
                     quantity |-> rv.q,
                     note |-> OptTrim(c0.note),
                     modifiers |-> c0.modifiers,
                     relation |-> [kind |-> "Definition", referenced_from |-> <<>>]],
                    "cookware", a),
                c0, a)
    IN
        cookware_new(IF IsSome(c.quantity)
                     THEN some_value(value(self, Unwrap(c.quantity), FALSE, at))
                     ELSE [self |-> self, q |-> None],
                     c, at)

\* Walker::component
component(self, c, at) ==
    LET
        \* the Component item of the model
        component_of(r, kind) == [self |-> r.self, c |-> [kind |-> kind, index |-> r.index]]
    IN
        IF c.kind = "Ingredient" THEN component_of(ingredient(self, c, at), "IngredientKind")
        ELSE IF c.kind = "Cookware" THEN component_of(cookware(self, c, at), "CookwareKind")
        ELSE component_of(timer(self, c, at), "TimerKind")

(* ------------------------- temperature regex -------------------------- *)
\* step text is a sequence of characters
Digits == {"0", "1", "2", "3", "4", "5", "6", "7", "8", "9"}

\* the class \d of the regex is the Unicode decimal digits: the ASCII digits
\* and the others, of which "U+0663" (ARABIC-INDIC DIGIT THREE) is one
RegexDigits == Digits \cup {"U+0663"}

\* Converter::temperature_regex: the symbols of the temperature units
TemperatureSymbols == {u \in DOMAIN UnitIndex : UnitIndex[u] = "Temperature"}

captures(t) ==
    LET
        Whitespace == {" "}

        \* first position >= p of t that is not in S (Len(t) + 1 when there is none)
        RunEnd(t0, p, S) ==
            IF \A q \in p..Len(t0) : t0[q] \in S THEN Len(t0) + 1
            ELSE CHOOSE q \in p..Len(t0) :
                     t0[q] \notin S /\ \A r \in p..(q - 1) : t0[r] \in S

        \* the end of the optional fraction ([.,]\d+)? that may follow the digits
        \* ending before d_end
        FractionEnd(t0, d_end) ==
            IF d_end <= Len(t0) /\ t0[d_end] \in {".", ","}
               /\ RunEnd(t0, d_end + 1, RegexDigits) > d_end + 1
            THEN RunEnd(t0, d_end + 1, RegexDigits)
            ELSE d_end

        \* the rest of the match once the number t[i .. f_end - 1] is read: \s* and
        \* one of the symbols
        MatchUnit(t0, i, f_end, w_end) ==
            IF w_end <= Len(t0) /\ t0[w_end] \in TemperatureSymbols
            THEN Some([start |-> i, num_end |-> f_end, unit |-> w_end, end |-> w_end + 1])
            ELSE None

        \* the number of the match: the digits t[p1 .. d_end - 1] and the fraction
        MatchNumber(t0, i, p1, d_end) ==
            IF d_end > p1
            THEN MatchUnit(t0, i, FractionEnd(t0, d_end),
                           RunEnd(t0, FractionEnd(t0, d_end), Whitespace))
            ELSE None

        \* the digits of the match, p1 is the position after the optional sign
        MatchDigits(t0, i, p1) == MatchNumber(t0, i, p1, RunEnd(t0, p1, RegexDigits))

        \* the match of ([+-]?\d+([.,]\d+)?)\s*(symbols) that starts at position i
        MatchAt(t0, i) ==
            MatchDigits(t0, i, IF i <= Len(t0) /\ t0[i] \in {"+", "-"} THEN i + 1 ELSE i)

        \* Regex::captures: the leftmost match
        MatchStarts(t0) == {i \in 1..Len(t0) : IsSome(MatchAt(t0, i))}
    IN
        IF MatchStarts(t) = {} THEN None
        ELSE MatchAt(t, CHOOSE i \in MatchStarts(t) : \A j \in MatchStarts(t) : i <= j)

DigitVal(c) ==
    CASE c = "0" -> 0 [] c = "1" -> 1 [] c = "2" -> 2 [] c = "3" -> 3 [] c = "4" -> 4
      [] c = "5" -> 5 [] c = "6" -> 6 [] c = "7" -> 7 [] c = "8" -> 8 [] c = "9" -> 9

\* str::parse::<f64> of a matched number, after ',' became '.': the value is
\* n / 10^d with the trailing zeros of the fraction dropped
RECURSIVE parse_f64(_, _, _, _)
parse_f64(cs, n, d, in_frac) ==
    LET
        Negated(v) == Number(0 - v.n, v.d)
    IN
        IF cs = <<>>
        THEN IF d > 0 /\ n % 10 = 0 THEN parse_f64(cs, n \div 10, d - 1, in_frac)
             ELSE Number(n, d)
        ELSE LET c == Head(cs)
             IN IF c \in {".", ","} THEN parse_f64(Tail(cs), n, d, TRUE)
                ELSE IF c = "+" THEN parse_f64(Tail(cs), n, d, in_frac)
                ELSE IF c = "-" THEN Negated(parse_f64(Tail(cs), n, d, in_frac))
                ELSE parse_f64(Tail(cs), 10 * n + DigitVal(c),
                               IF in_frac THEN d + 1 ELSE d, in_frac)

\* find_temperature
find_temperature(text) ==
    LET
        \* str::parse::<f64> is Ok: it reads ASCII digits only
        parses(cs) == \A i \in 1..Len(cs) : cs[i] \in Digits \cup {"+", "-", ".", ","}

        \* find_temperature on the captures caps: None or (before, temperature, after)
        temperature_of(t, caps) ==
            IF caps = None THEN None
            ELSE IF ~parses(SubSeq(t, Unwrap(caps).start, Unwrap(caps).num_end - 1))
            THEN None
            ELSE Some([before |-> SubSeq(t, 1, Unwrap(caps).start - 1),
                       temperature |->
                          Quantity_new(
                              [k |-> "Fixed",
                               values |-> <<parse_f64(SubSeq(t, Unwrap(caps).start,
                                                             Unwrap(caps).num_end - 1),
                                                      0, 0, FALSE)>>],
                              Some(t[Unwrap(caps).unit])),
                       after |-> SubSeq(t, Unwrap(caps).end, Len(t))])
    IN
        temperature_of(text, captures(text))

(* --------------------------- steps and lines -------------------------- *)
\* char::is_alphanumeric over the characters of a text
contains_alphanumeric(t) ==
    LET
        Letters == {"a", "b", "C", "F"}
    IN
        \E i \in 1..Len(t) : t[i] \in Letters \cup RegexDigits

\* the item loop of Walker::step: r is the walker and the new items so far;
\* the loop stops at a panic
RECURSIVE step_items(_, _, _, _, _)
step_items(r, items, k, effective_text, line) ==
    LET
        \* Walker::step on a text item whose temperature search gave found
        step_text(self, new_items, text, found) ==
            IF IsSome(found)
            THEN [self |-> [self EXCEPT !.content.inline_quantities =
                                Append(@, Unwrap(found).temperature)],
                  items |->
                     (IF Unwrap(found).before # <<>>
                      THEN Append(new_items, [kind |-> "Text", value |-> Unwrap(found).before])
                      ELSE new_items)
                     \o <<[kind |-> "InlineQuantity",
                           value |-> Len(self.content.inline_quantities)]>>
                     \o (IF Unwrap(found).after # <<>>
                         THEN <<[kind |-> "Text", value |-> Unwrap(found).after]>>
                         ELSE <<>>)]
            ELSE [self |-> self,
                  items |-> Append(new_items, [kind |-> "Text", value |-> text])]

        \* Walker::step on a component item, r is the result of Walker::component
        step_component(new_items, r0) ==
            [self |-> r0.self,
             items |-> IF r0.self.panic # "none" THEN new_items
                       ELSE Append(new_items, [kind |-> "ItemComponent", value |-> r0.c])]

        \* one iteration of the item loop of Walker::step: the walker and the new
        \* items after the k-th item of the line
        step_item(self, new_items, item, k0, e, l) ==
            IF item.kind = "Text"
            THEN IF self.define_mode = "Components"
                 THEN [self |-> IF contains_alphanumeric(item.text)
                                THEN warn(self, Diag("TextDefiningIngredients",
                                                     Span(l, k0, "text"), NoData))
                                ELSE self,
                       items |-> new_items]
                 ELSE step_text(self, new_items, item.text,
                                IF self.temperature_regex
                                THEN find_temperature(item.text) ELSE None)
            ELSE IF e
                 THEN [self |-> warn(self, Diag("ComponentInTextMode",
                                                Span(l, k0, "component"), NoData)),
                       items |-> new_items]
                 ELSE step_component(new_items, component(self, item.c, <<l, k0>>))
    IN
        IF k > Len(items) \/ r.self.panic # "none" THEN r
        ELSE step_items(step_item(r.self, r.items, items[k], k, effective_text, line),
                        items, k + 1, effective_text, line)

\* Walker::step: returns the walker and the new Step
step(self, is_text_line, items, line) ==
    LET
        \* Walker::step, the Step built after the loop
        step_of(r, effective_text) ==
            [self |-> r.self,
             step |-> [items |-> r.items,
                       number |-> IF ~effective_text THEN Some(r.self.step_counter) ELSE None]]
    IN
        step_of(step_items([self |-> self, items |-> <<>>], items, 1,
                           is_text_line \/ self.define_mode = "Text", line),
                is_text_line \/ self.define_mode = "Text")

\* a metadata key is a sequence of atoms: "[", "]", " " and words
key_trimmed(key) ==
    LET keep == {i \in 1..Len(key) : key[i] # " "}
    IN IF keep = {} THEN <<>>
       ELSE SubSeq(key, CHOOSE i \in keep : \A j \in keep : i <= j,
                        CHOOSE i \in keep : \A j \in keep : j <= i)

\* Metadata::insert: stores the entry; Err for a servings value that does
\* not validate, and then the servings are left as they were
Metadata_insert(metadata, key_t, value_t) ==
    LET
        \* the servings value of Metadata::insert: a list of positive integers
        parse_servings(v) ==
            CASE v = "2" -> Some(<<2>>)
              [] v = "2|4" -> Some(<<2, 4>>)
              [] v = "1|2|3" -> Some(<<1, 2, 3>>)
              [] OTHER -> None
    IN
        LET map == {m \in metadata.map : m[1] # key_t} \cup {<<key_t, value_t>>}
        IN IF key_t = <<"servings">>
           THEN IF IsSome(parse_servings(value_t))
                THEN [ok |-> TRUE,
                      metadata |-> [map |-> map, servings |-> Some(Unwrap(parse_servings(value_t)))]]
                ELSE [ok |-> FALSE, metadata |-> [metadata EXCEPT !.map = map]]
           ELSE [ok |-> TRUE, metadata |-> [metadata EXCEPT !.map = map]]

\* a metadata handler that takes an unknown duplicate mode for the default
metadata_duplicate_default(self, key, value_text, line) ==
    LET key_t == key_trimmed(key)
        value_t == text_trimmed(value_text)
        span == Span(line, 0, "metadata")
        s0 == [self EXCEPT !.metadata_locations =
                   {m \in @ : m[1] # key_t} \cup {<<key_t, Span(line, 0, "value")>>}]
        invalid_value == Diag("InvalidSpecialMetadataValue", span,
                              [key |-> key_t, value |-> value_t])
    IN IF MODES \in s0.extensions /\ Len(key_t) > 0
          /\ key_t[1] = "[" /\ key_t[Len(key_t)] = "]"
       THEN LET special_key == SubSeq(key_t, 2, Len(key_t) - 1)
            IN IF special_key \in {<<"define">>, <<"mode">>}
               THEN CASE value_t \in {"all", "default"} -> [s0 EXCEPT !.define_mode = "All"]
                      [] value_t \in {"components", "ingredients"} ->
                             [s0 EXCEPT !.define_mode = "Components"]
                      [] value_t = "steps" -> [s0 EXCEPT !.define_mode = "Steps"]
                      [] value_t = "text" -> [s0 EXCEPT !.define_mode = "Text"]
                      [] OTHER -> error(s0, invalid_value)
               ELSE IF special_key = <<"duplicate">>
               THEN CASE value_t \in {"new", "default"} -> [s0 EXCEPT !.duplicate_mode = "New"]
                      [] value_t \in {"reference", "ref"} ->
                             [s0 EXCEPT !.duplicate_mode = "Reference"]
                      [] OTHER -> [s0 EXCEPT !.duplicate_mode = "New"]
               ELSE IF special_key \in {<<"auto scale">>, <<"auto_scale">>}
               THEN CASE value_t = "true" -> [s0 EXCEPT !.auto_scale_ingredients = TRUE]
                      [] value_t \in {"false", "default"} ->
                             [s0 EXCEPT !.auto_scale_ingredients = FALSE]
                      [] OTHER -> error(s0, invalid_value)
               ELSE warn(s0, Diag("UnknownSpecialMetadataKey", span, [key |-> key_t]))
       ELSE LET r == Metadata_insert(s0.content.metadata, key_t, value_t)
                s1 == [s0 EXCEPT !.content.metadata = r.metadata]
            IN IF r.ok THEN s1
               ELSE warn(s1, Diag("InvalidMetadataValue", span,
                                  [key |-> key_t, value |-> value_t]))

\* Walker::metadata
metadata(self, key, value_text, line) ==
    LET key_t == key_trimmed(key)
        value_t == text_trimmed(value_text)
        span == Span(line, 0, "metadata")
        s0 == [self EXCEPT !.metadata_locations =
                   {m \in @ : m[1] # key_t} \cup {<<key_t, Span(line, 0, "value")>>}]
        invalid_value == Diag("InvalidSpecialMetadataValue", span,
                              [key |-> key_t, value |-> value_t])
    IN IF MODES \in s0.extensions /\ Len(key_t) > 0
          /\ key_t[1] = "[" /\ key_t[Len(key_t)] = "]"
       THEN LET special_key == SubSeq(key_t, 2, Len(key_t) - 1)
            IN IF special_key \in {<<"define">>, <<"mode">>}
               THEN CASE value_t \in {"all", "default"} -> [s0 EXCEPT !.define_mode = "All"]
                      [] value_t \in {"components", "ingredients"} ->
                             [s0 EXCEPT !.define_mode = "Components"]
                      [] value_t = "steps" -> [s0 EXCEPT !.define_mode = "Steps"]
                      [] value_t = "text" -> [s0 EXCEPT !.define_mode = "Text"]
                      [] OTHER -> error(s0, invalid_value)
               ELSE IF special_key = <<"duplicate">>
               THEN CASE value_t \in {"new", "default"} -> [s0 EXCEPT !.duplicate_mode = "New"]
                      [] value_t \in {"reference", "ref"} ->
                             [s0 EXCEPT !.duplicate_mode = "Reference"]
                      [] OTHER -> error(s0, invalid_value)
               ELSE IF special_key \in {<<"auto scale">>, <<"auto_scale">>}
               THEN CASE value_t = "true" -> [s0 EXCEPT !.auto_scale_ingredients = TRUE]
                      [] value_t \in {"false", "default"} ->
                             [s0 EXCEPT !.auto_scale_ingredients = FALSE]
                      [] OTHER -> error(s0, invalid_value)
               ELSE warn(s0, Diag("UnknownSpecialMetadataKey", span, [key |-> key_t]))
       ELSE LET r == Metadata_insert(s0.content.metadata, key_t, value_t)
                s1 == [s0 EXCEPT !.content.metadata = r.metadata]
            IN IF r.ok THEN s1
               ELSE warn(s1, Diag("InvalidMetadataValue", span,
                                  [key |-> key_t, value |-> value_t]))

(* ---------------------------- state machine --------------------------- *)
VARIABLES
    walker,   \* the Walker struct (and the panic message once it aborted)
    lines,    \* number of AST lines Walker::ast has consumed
    line,     \* the AST line the loop of Walker::ast took last
    result,   \* the AnalysisResult once Walker::ast returned, None before
    parser,   \* the Parser struct and the locals of parse; the LineParser and
              \* the locals of step while step runs on one line
    parsed,   \* the PassResult once parse returned, None before
    pc,       \* "parse" while in the loop of parse, "walk" while in the loop
              \* of Walker::ast, then "done" or "panic"; "quantity" while
              \* the quantity operations run and "cells" while the callers
              \* of the one-time initialisations run; "step", "step_loop"
              \* and "step_return" while step runs on one line, "line"
              \* before it is called
    call,     \* the last call of a Quantity or Converter function: its
              \* operands and what it returned
    grouped,  \* a GroupedQuantity and the quantities added to it
    recipe,   \* a Recipe handed to Recipe::convert and the errors returned
    cell,     \* the OnceCell of a QuantityUnit or of a Converter
    callers   \* the position of each thread that reads the cell

vars == <<walker, lines, line, result, parser, parsed, pc,
          call, grouped, recipe, cell, callers>>

\* the state of the quantity operations and of the cells
quantity_vars == <<call, grouped, recipe, cell, callers>>

\* no quantity operation and no caller of a cell is running
QuantityIdle ==
    /\ call = None
    /\ grouped = None
    /\ recipe = None
    /\ cell = None
    /\ callers = <<>>

\* Parser::new and the locals of parse before its loop; consumed counts the
\* lines next_line has handed out and offset the bytes of them
Parser_new(extensions) ==
    [context |-> [errors |-> <<>>, warnings |-> <<>>],
     extensions |-> extensions,
     lines |-> <<>>,
     last_empty |-> TRUE,
     consumed |-> 0,
     offset |-> 0,
     panic |-> "none"]

\* the loop variable before the first iteration
NoLine == [kind |-> "None"]

\* the state when Walker::ast starts on the walker w
WalkInit(w) ==
    /\ walker = w
    /\ lines = 0
    /\ line = NoLine
    /\ result = None
    /\ parser = Parser_new({})
    /\ parsed = None
    /\ pc = "walk"
    /\ QuantityIdle

\* parse_ast: the walker after construction
parse_ast(extensions, regex_compiles, recipe_ref_checker) ==
    [extensions |-> extensions,
     temperature_regex |-> (TEMPERATURE \in extensions /\ regex_compiles),
     recipe_ref_checker |-> recipe_ref_checker,
     content |-> [metadata |-> [map |-> {}, servings |-> None],
                  sections |-> <<>>, ingredients |-> <<>>, cookware |-> <<>>,
                  timers |-> <<>>, inline_quantities |-> <<>>],
     current_section |-> Section_new(None),
     define_mode |-> "All",
     duplicate_mode |-> "New",
     auto_scale_ingredients |-> FALSE,
     context |-> [errors |-> <<>>,
                  warnings |-> IF TEMPERATURE \in extensions /\ ~regex_compiles
                               THEN <<Diag("TemperatureRegexCompile",
                                           Span(0, 0, "regex"), NoData)>>
                               ELSE <<>>],
     ingredient_locations |-> <<>>,
     metadata_locations |-> {},
     step_counter |-> 1,
     panic |-> "none"]

\* a loop body that pushes the step in every define mode
ast_step_always_push(self, is_text_line, items, line_no) ==
    LET
        ast_push_step(r, i) ==
            IF r.self.panic # "none" THEN r.self
            ELSE [r.self EXCEPT !.step_counter = IF ~i THEN @ + 1 ELSE @,
                                !.current_section.steps = Append(@, r.step)]
    IN
        ast_push_step(step(self, is_text_line, items, line_no), is_text_line)

ast_step(self, is_text_line, items, line_no) ==
    LET
        \* Walker::ast, the Step arm of the loop body; r is the result of Walker::step
        ast_push_step(r, i) ==
            IF r.self.panic # "none" THEN r.self
            ELSE IF r.self.define_mode # "Components"
            THEN [r.self EXCEPT !.step_counter = IF ~i THEN @ + 1 ELSE @,
                                !.current_section.steps = Append(@, r.step)]
            ELSE r.self
    IN
        ast_push_step(step(self, is_text_line, items, line_no), is_text_line)

\* the current section is pushed unless it is empty
push_current_section(self) ==
    IF ~Section_is_empty(self.current_section)
    THEN [self EXCEPT !.content.sections = Append(@, self.current_section)]
    ELSE self

\* Walker::ast, the Section arm of the loop body
ast_section(self, name) ==
    [push_current_section([self EXCEPT !.step_counter = 1])
        EXCEPT !.current_section = Section_new(OptTrim(name))]

\* Walker::ast after the loop: the last section is flushed
ast_end(self) == push_current_section(self)

MetadataLine(key, value_text) ==
    /\ pc = "walk"
    /\ walker' = metadata(walker, key, value_text, lines + 1)
    /\ lines' = lines + 1
    /\ line' = [kind |-> "Metadata", key |-> key, value |-> value_text]
    /\ UNCHANGED <<result, parser, parsed, pc, quantity_vars>>

StepLine(is_text_line, items) ==
    /\ pc = "walk"
    /\ walker' = ast_step(walker, is_text_line, items, lines + 1)
    /\ lines' = lines + 1
    /\ line' = [kind |-> "Step", is_text |-> is_text_line, items |-> items]
    /\ pc' = IF walker'.panic # "none" THEN "panic" ELSE pc
    /\ UNCHANGED <<result, parser, parsed, quantity_vars>>

SectionLine(name) ==
    /\ pc = "walk"
    /\ walker' = ast_section(walker, name)
    /\ lines' = lines + 1
    /\ line' = [kind |-> "Section", name |-> name]
    /\ UNCHANGED <<result, parser, parsed, pc, quantity_vars>>

Finish ==
    /\ pc = "walk"
    /\ walker' = ast_end(walker)
    /\ result' = Some(finish(walker'.context, Some(walker'.content)))
    /\ pc' = "done"
    /\ UNCHANGED <<lines, line, parser, parsed, quantity_vars>>

(* ------------------------------ AST inputs ---------------------------- *)
TextItem(t) == [kind |-> "Text", text |-> t]
ComponentItem(c) == [kind |-> "Component", c |-> c]
Single(v, auto_scale) ==
    [k |-> "Single", values |-> <<v>>,
     auto_scale |-> IF auto_scale THEN Some("marker") ELSE None]
Many(vs) == [k |-> "Many", values |-> vs, auto_scale |-> None]
AstQuantity(v, unit) == [value |-> v, unit |-> unit]
AstIngredient(modifiers, name, qty, note, inter) ==
    [kind |-> "Ingredient", modifiers |-> modifiers, name |-> name, alias |-> None,
     quantity |-> qty, note |-> note, intermediate_data |-> inter]
AstCookware(modifiers, name, qty, note) ==
    [kind |-> "Cookware", modifiers |-> modifiers, name |-> name, alias |-> None,
     quantity |-> qty, note |-> note]
AstTimer(name, qty) == [kind |-> "Timer", name |-> name, quantity |-> qty]
IntermediateData(target_kind, ref_mode, val) ==
    [target_kind |-> target_kind, ref_mode |-> ref_mode, val |-> val]

(* ------------------- specification: step numbering ------------------- *)
\* lines that drive the step counter: steps with or without the text marker,
\* define-mode switches and section headers
NumberingItems == {TextItem(<<"a">>), ComponentItem(AstTimer(None, None))}
NumberingValues == {"all", "components", "text"}

InitNumbering == WalkInit(parse_ast({MODES}, TRUE, None))

NextNumbering ==
    \/ \E v \in NumberingValues :
          lines < MaxLinesNumbering /\ MetadataLine(<<"[", "mode", "]">>, v)
    \/ \E t \in BOOLEAN, item \in NumberingItems :
          lines < MaxLinesNumbering /\ StepLine(t, <<item>>)
    \/ lines < MaxLinesNumbering /\ SectionLine(None)
    \/ Finish
SpecNumbering == InitNumbering /\ [][NextNumbering]_vars

\* C1: in every section the walker has emitted (and in the section under
\* construction) the numbers of the non-text steps are exactly 1, 2, ..., N
\* in step order
C1_StepNumbersContiguous ==
    LET
        \* the numbers of the non-text steps of a section, in step order
        StepNumbers(section) ==
            LET numbered == SelectSeq(section.steps, LAMBDA st : ~Step_is_text(st))
            IN [i \in 1..Len(numbered) |-> Unwrap(numbered[i].number)]
    IN
        \A i \in 1..(Len(walker.content.sections) + 1) :
            LET section == IF i <= Len(walker.content.sections)
                           THEN walker.content.sections[i]
                           ELSE walker.current_section
                nums == StepNumbers(section)
            IN \A n \in 1..Len(nums) : nums[n] = n

(* ----------------- specification: component references ---------------- *)
MaxLinesRefs == 3

\* ingredients and cookware under two spellings of one name, with and without
\* the reference modifier, with and without a quantity; one ingredient that
\* refers to the first step of the section
RefComponents ==
    LET
        \* one unit-less quantity
        OneQuantity == AstQuantity(Single(Number(1, 0), FALSE), None)
    IN
        {AstIngredient(m, n, q, None, None) :
            m \in {{}, {"REF"}, {"NEW", "REF"}},
            n \in {"salt", "Salt "},
            q \in {None, Some(OneQuantity)}}
        \cup {AstCookware(m, n, None, None) : m \in {{}, {"REF"}}, n \in {"pan", "PAN"}}
        \cup {AstIngredient({"REF"}, "salt", None, None,
                            Some(IntermediateData("Step", "Index", 0)))}

InitRefs == WalkInit(parse_ast({MODES}, TRUE, None))

NextRefs ==
    \/ \E v \in {"components", "all", "steps"} :
          lines < MaxLinesRefs /\ MetadataLine(<<"[", "mode", "]">>, v)
    \/ \E v \in {"reference", "new"} :
          lines < MaxLinesRefs /\ MetadataLine(<<"[", "duplicate", "]">>, v)
    \/ \E c \in RefComponents :
          lines < MaxLinesRefs /\ StepLine(FALSE, <<ComponentItem(c)>>)
    \/ \E n \in {"pan", "PAN"} :
          lines < MaxLinesRefs
          /\ StepLine(FALSE, <<ComponentItem(AstCookware({}, "pan", None, None)),
                               ComponentItem(AstCookware({"REF"}, n, None, None))>>)
    \/ Finish
SpecRefs == InitRefs /\ [][NextRefs]_vars

\* the 0-based indices of the components of a list that are references to a
\* component of the same list
RefsOf(list) ==
    {r \in 0..(Len(list) - 1) :
        /\ At(list, r).relation.kind = "Reference"
        /\ "target" \in DOMAIN At(list, r).relation
              => At(list, r).relation.target = "IngredientTarget"}

\* C2: every ingredient-target reference and every cookware reference points
\* to a component of its list whose relation is a Definition, and the walker
\* never aborts with "Reference to reference"
C2_ReferenceTargetsDefinition ==
    /\ \A r \in RefsOf(walker.content.ingredients) :
          /\ At(walker.content.ingredients, r).relation.index
                 < Len(walker.content.ingredients)
          /\ At(walker.content.ingredients,
                At(walker.content.ingredients, r).relation.index).relation.kind
                 = "Definition"
    /\ \A r \in RefsOf(walker.content.cookware) :
          /\ At(walker.content.cookware, r).relation.index
                 < Len(walker.content.cookware)
          /\ At(walker.content.cookware,
                At(walker.content.cookware, r).relation.index).relation.kind
                 = "Definition"
    /\ walker.panic # "Reference to reference"

\* an ingredient reference and a cookware reference have been analysed
C2_Witness ==
    /\ RefsOf(walker.content.ingredients) # {}
    /\ RefsOf(walker.content.cookware) # {}

\* C3: the definition a reference points to lists the index of the reference
\* in referenced_from exactly once
C3_BackLinkExactlyOnce ==
    LET
        \* how often the index r occurs in referenced_from of the component d
        BackLinks(list, d, r) ==
            Cardinality({j \in 1..Len(At(list, d).relation.referenced_from) :
                            At(list, d).relation.referenced_from[j] = r})
    IN
        /\ \A r \in RefsOf(walker.content.ingredients) :
              BackLinks(walker.content.ingredients,
                        At(walker.content.ingredients, r).relation.index, r) = 1
        /\ \A r \in RefsOf(walker.content.cookware) :
              BackLinks(walker.content.cookware,
                        At(walker.content.cookware, r).relation.index, r) = 1

\* one definition has two references
C3_Witness ==
    \E d \in 1..Len(walker.content.ingredients) :
        /\ walker.content.ingredients[d].relation.kind = "Definition"
        /\ Len(walker.content.ingredients[d].relation.referenced_from) = 2

\* the definition the ingredient reference r points to
DefinitionOf(r) ==
    At(walker.content.ingredients, At(walker.content.ingredients, r).relation.index)

\* C6: the ConflictingReferenceQuantities error that carries the location of
\* an ingredient reference is recorded exactly when the definition was made
\* outside a step and both the definition and the reference have a quantity;
\* no such error is recorded for anything but a reference
C6_ConflictingReferenceQuantities ==
    /\ \A r \in RefsOf(walker.content.ingredients) :
          HasDiag(walker.context.errors, "ConflictingReferenceQuantities",
                  At(walker.ingredient_locations, r))
          <=> /\ ~DefinitionOf(r).defined_in_step
              /\ IsSome(DefinitionOf(r).quantity)
              /\ IsSome(At(walker.content.ingredients, r).quantity)
    /\ \A i \in 1..Len(walker.context.errors) :
          walker.context.errors[i].kind = "ConflictingReferenceQuantities"
          => \E r \in RefsOf(walker.content.ingredients) :
                 walker.context.errors[i].span = At(walker.ingredient_locations, r)

\* a reference with a quantity to a definition with a quantity that was made
\* in Components mode, and the error of that reference
C6_Witness ==
    \E r \in RefsOf(walker.content.ingredients) :
        /\ ~DefinitionOf(r).defined_in_step
        /\ IsSome(DefinitionOf(r).quantity)
        /\ IsSome(At(walker.content.ingredients, r).quantity)
        /\ HasDiag(walker.context.errors, "ConflictingReferenceQuantities",
                   At(walker.ingredient_locations, r))

(* ------------------- specification: quantity values ------------------- *)
MaxLinesValues == 3

\* ingredients, cookware and timers that carry the values; the timers with a
\* time unit, a mass unit, a unit the converter does not know, and no unit
ValueComponents ==
    LET
        \* AST values: a number, a text and a range, with and without the auto-scale
        \* marker, and a value per serving
        AstValues ==
            {Single(Number(1, 0), FALSE), Single(Number(1, 0), TRUE),
             Single(Text(1), FALSE), Single(Text(1), TRUE),
             Single(Range(1), TRUE),
             Many(<<Number(1, 0), Number(2, 0)>>)}
    IN
        {AstIngredient({}, "salt", Some(AstQuantity(v, None)), None, None) :
            v \in AstValues}
        \cup {AstCookware({}, "pan", Some(v), None) :
                v \in AstValues \ {Single(Text(1), TRUE), Single(Range(1), TRUE)}}
        \cup {AstTimer(None, Some(AstQuantity(Single(Number(1, 0), FALSE), u))) :
                u \in {None, Some(" min"), Some("kg "), Some("cup")}}
        \cup {AstTimer(None, Some(AstQuantity(v, Some(" min")))) :
                v \in {Single(Number(1, 0), TRUE), Many(<<Number(1, 0), Number(2, 0)>>)}}

InitValues ==
    \E extensions \in {{MODES}, {MODES, ADVANCED_UNITS}} :
        WalkInit(parse_ast(extensions, TRUE, None))

NextValues ==
    \/ \E v \in {"2", "2|4", "many"} :
          lines < MaxLinesValues /\ MetadataLine(<<"servings">>, v)
    \/ \E v \in {"true", "false"} :
          lines < MaxLinesValues /\ MetadataLine(<<"[", "auto scale", "]">>, v)
    \/ \E c \in ValueComponents :
          lines < MaxLinesValues /\ StepLine(FALSE, <<ComponentItem(c)>>)
    \/ Finish
SpecValues == InitValues /\ [][NextValues]_vars

\* the items of the step line the walker took last that are components with
\* a quantity
ValueItems ==
    IF line.kind = "Step"
    THEN {k \in 1..Len(line.items) :
             line.items[k].kind = "Component" /\ IsSome(line.items[k].c.quantity)}
    ELSE {}

\* the AST value of the k-th item: a cookware quantity is a bare value
AstValueOf(k) ==
    IF line.items[k].c.kind = "Cookware"
    THEN Unwrap(line.items[k].c.quantity)
    ELSE Unwrap(line.items[k].c.quantity).value

\* the component the walker made of the k-th item of the line
ComponentOf(k) == Last(walker.current_section.steps).items[k].value

\* the model value the walker made of the quantity of the k-th item
LoweredOf(k) ==
    IF line.items[k].c.kind = "Ingredient"
    THEN Unwrap(At(walker.content.ingredients, ComponentOf(k).index).quantity).value
    ELSE IF line.items[k].c.kind = "Cookware"
    THEN Unwrap(At(walker.content.cookware, ComponentOf(k).index).quantity)
    ELSE Unwrap(At(walker.content.timers, ComponentOf(k).index).quantity).value

\* C7: a Many value of the line taken last has its ScalableValueManyConflict
\* error exactly when no servings are recorded or their number differs from
\* the number of values, and it is lowered to ByServings with the same values
C7_ScalableValueManyConflict ==
    \A k \in ValueItems :
        AstValueOf(k).k = "Many"
        => /\ HasDiag(walker.context.errors, "ScalableValueManyConflict",
                      Span(lines, k, "value"))
              <=> \/ walker.content.metadata.servings = None
                  \/ Len(Unwrap(walker.content.metadata.servings))
                        # Len(AstValueOf(k).values)
           /\ LoweredOf(k) = [k |-> "ByServings", values |-> AstValueOf(k).values]

\* two servings are recorded and a value with two entries was lowered without
\* the error
C7_Witness ==
    /\ walker.content.metadata.servings = Some(<<2, 4>>)
    /\ \E k \in ValueItems :
          /\ AstValueOf(k).k = "Many"
          /\ ~HasDiag(walker.context.errors, "ScalableValueManyConflict",
                      Span(lines, k, "value"))
          /\ LoweredOf(k).k = "ByServings"

\* C8: a Single value of the line taken last has its ScaleTextValue error
\* exactly when the value is text and the auto-scale marker is set
C8_ScaleTextValue ==
    \A k \in ValueItems :
        AstValueOf(k).k = "Single"
        => (HasDiag(walker.context.errors, "ScaleTextValue", Span(lines, k, "value"))
            <=> /\ AstValueOf(k).values[1].t = "Text"
                /\ IsSome(AstValueOf(k).auto_scale))

\* C9: the lowered value is Fixed, Linear or ByServings by the shape of the
\* AST value; under auto_scale_ingredients a non-text Fixed of an ingredient
\* becomes Linear and a Linear one is warned about; nothing else changes
C9_Lowering ==
    LET
        \* the value from_ast is specified to give
        LoweredBase(v) ==
            IF v.k = "Many" THEN [k |-> "ByServings", values |-> v.values]
            ELSE IF IsSome(v.auto_scale) THEN [k |-> "Linear", values |-> v.values]
            ELSE [k |-> "Fixed", values |-> v.values]

        \* the k-th item is an ingredient analysed with auto_scale_ingredients on
        AutoScaled(k) ==
            line.items[k].c.kind = "Ingredient" /\ walker.auto_scale_ingredients
    IN
        \A k \in ValueItems :
            /\ LoweredOf(k) =
                  IF /\ AutoScaled(k)
                     /\ LoweredBase(AstValueOf(k)).k = "Fixed"
                     /\ AstValueOf(k).values[1].t # "Text"
                  THEN [k |-> "Linear", values |-> AstValueOf(k).values]
                  ELSE LoweredBase(AstValueOf(k))
            /\ HasDiag(walker.context.warnings, "RedundantAutoScaleMarker",
                       Span(lines, k, "marker"))
               <=> AutoScaled(k) /\ LoweredBase(AstValueOf(k)).k = "Linear"

\* with auto_scale_ingredients on, an ingredient value without the marker was
\* lowered to Linear
C9_Witness ==
    /\ walker.auto_scale_ingredients
    /\ \E k \in ValueItems :
          /\ line.items[k].c.kind = "Ingredient"
          /\ AstValueOf(k) = Single(Number(1, 0), FALSE)
          /\ LoweredOf(k).k = "Linear"

\* the timers of the line taken last whose quantity has a unit
TimerItems ==
    {k \in ValueItems :
        line.items[k].c.kind = "Timer" /\ IsSome(Unwrap(line.items[k].c.quantity).unit)}

\* the trimmed unit of the timer at item k
TimerUnit(k) == text_trimmed(Unwrap(Unwrap(line.items[k].c.quantity).unit))

\* C10: under ADVANCED_UNITS a timer unit gives BadTimerUnit exactly when the
\* converter knows it as something else than Time and UnknownTimerUnit
\* exactly when the converter does not know it; without ADVANCED_UNITS it
\* gives neither; the timer is the last of the timer list in every case
C10_TimerUnit ==
    \A k \in TimerItems :
        /\ HasDiag(walker.context.errors, "BadTimerUnit", Span(lines, k, "unit"))
           <=> /\ ADVANCED_UNITS \in walker.extensions
               /\ TimerUnit(k) \in DOMAIN UnitIndex
               /\ UnitIndex[TimerUnit(k)] # "Time"
        /\ HasDiag(walker.context.errors, "UnknownTimerUnit",
                   Span(lines, k, "component"))
           <=> /\ ADVANCED_UNITS \in walker.extensions
               /\ TimerUnit(k) \notin DOMAIN UnitIndex
        /\ ComponentOf(k).kind = "TimerKind"
        /\ ComponentOf(k).index = Len(walker.content.timers) - 1
        /\ Unwrap(At(walker.content.timers, ComponentOf(k).index).quantity).unit
              = Some(TimerUnit(k))

\* under ADVANCED_UNITS a timer in kg was analysed: the error is recorded and
\* the timer is in the list
C10_Witness ==
    /\ ADVANCED_UNITS \in walker.extensions
    /\ \E k \in TimerItems :
          /\ TimerUnit(k) = "kg"
          /\ HasDiag(walker.context.errors, "BadTimerUnit", Span(lines, k, "unit"))
          /\ ComponentOf(k).index = Len(walker.content.timers) - 1

(* ------------------ specification: indices of the content ------------- *)
MaxLinesContent == 3

\* a text with a temperature in it
TemperatureText == <<"a", " ", "1", "C">>

\* text with and without a temperature, a timer, a cookware and an ingredient
\* with a reference to each, and references to steps and sections by index
\* and relative
ContentItems ==
    LET
        \* an ingredient that refers to a step or a section of the recipe
        IntermediateRef(target_kind, ref_mode, val) ==
            AstIngredient({"REF"}, "salt", None, None,
                          Some(IntermediateData(target_kind, ref_mode, val)))
    IN
        {TextItem(<<"a">>), TextItem(TemperatureText)}
        \cup {ComponentItem(c) :
                c \in {AstTimer(None, None),
                       AstCookware({}, "pan", None, None),
                       AstCookware({"REF"}, "pan", None, None),
                       AstIngredient({}, "salt", None, None, None),
                       AstIngredient({"REF"}, "salt", None, None, None),
                       IntermediateRef("Step", "Index", 0),
                       IntermediateRef("Step", "Index", 1),
                       IntermediateRef("Step", "Relative", 1),
                       IntermediateRef("Section", "Index", 0),
                       IntermediateRef("Section", "Relative", 1)}}

\* lines of two items
ContentPairs ==
    {<<TextItem(TemperatureText), ComponentItem(AstTimer(None, None))>>,
     <<ComponentItem(AstIngredient({}, "salt", None, None, None)),
       ComponentItem(AstIngredient({"REF"}, "salt", None, None, None))>>}

InitContent == WalkInit(parse_ast({MODES, TEMPERATURE}, TRUE, None))

NextContent ==
    \/ \E v \in {"components", "all"} :
          lines < MaxLinesContent /\ MetadataLine(<<"[", "mode", "]">>, v)
    \/ \E item \in ContentItems :
          lines < MaxLinesContent /\ StepLine(FALSE, <<item>>)
    \/ \E items \in ContentPairs :
          lines < MaxLinesContent /\ StepLine(FALSE, items)
    \/ lines < MaxLinesContent /\ StepLine(TRUE, <<TextItem(<<"a">>)>>)
    \/ \E name \in {None, Some("Salt ")} :
          lines < MaxLinesContent /\ SectionLine(name)
    \/ Finish
SpecContent == InitContent /\ [][NextContent]_vars

\* the sections of the content; while the walk goes on the section under
\* construction is the last of them
AllSections ==
    IF pc = "done" THEN walker.content.sections
    ELSE Append(walker.content.sections, walker.current_section)

\* C4: every index of a step item and of a relation points to an existing
\* slot of the list it addresses
C4_IndicesValid ==
    LET
        \* the length of the list a component of this kind is in
        ListLen(kind) ==
            IF kind = "IngredientKind" THEN Len(walker.content.ingredients)
            ELSE IF kind = "CookwareKind" THEN Len(walker.content.cookware)
            ELSE Len(walker.content.timers)

        \* the index of a step item is a slot of its list
        ItemIndexValid(item) ==
            /\ item.kind = "ItemComponent"
                  => item.value.index >= 0 /\ item.value.index < ListLen(item.value.kind)
            /\ item.kind = "InlineQuantity"
                  => item.value >= 0 /\ item.value < Len(walker.content.inline_quantities)

        \* the sections that hold the ingredient i in one of their steps, or every
        \* section when no step holds it (it was defined in Components mode)
        SectionsOf(i) ==
            LET holding == {s \in 1..Len(AllSections) :
                               \E p \in 1..Len(AllSections[s].steps) :
                                   \E k \in 1..Len(AllSections[s].steps[p].items) :
                                       /\ AllSections[s].steps[p].items[k].kind = "ItemComponent"
                                       /\ AllSections[s].steps[p].items[k].value
                                             = [kind |-> "IngredientKind", index |-> i]}
            IN IF holding = {} THEN 1..Len(AllSections) ELSE holding

        \* the index of the relation of the ingredient i is a slot of the list the
        \* relation addresses
        IngredientRelationValid(i) ==
            LET relation == At(walker.content.ingredients, i).relation
            IN IF relation.kind = "Definition"
               THEN \A j \in 1..Len(relation.referenced_from) :
                       /\ relation.referenced_from[j] >= 0
                       /\ relation.referenced_from[j] < Len(walker.content.ingredients)
               ELSE /\ relation.index >= 0
                    /\ relation.target = "IngredientTarget"
                          => relation.index < Len(walker.content.ingredients)
                    /\ relation.target = "StepTarget"
                          => \E s \in SectionsOf(i) :
                                 relation.index < Len(AllSections[s].steps)
                    /\ relation.target = "SectionTarget"
                          => relation.index < Len(walker.content.sections)

        \* the same for the cookware i
        CookwareRelationValid(i) ==
            LET relation == At(walker.content.cookware, i).relation
            IN IF relation.kind = "Definition"
               THEN \A j \in 1..Len(relation.referenced_from) :
                       /\ relation.referenced_from[j] >= 0
                       /\ relation.referenced_from[j] < Len(walker.content.cookware)
               ELSE relation.index >= 0 /\ relation.index < Len(walker.content.cookware)
    IN
        /\ \A s \in 1..Len(AllSections) :
              \A p \in 1..Len(AllSections[s].steps) :
                  \A k \in 1..Len(AllSections[s].steps[p].items) :
                      ItemIndexValid(AllSections[s].steps[p].items[k])
        /\ \A i \in 0..(Len(walker.content.ingredients) - 1) : IngredientRelationValid(i)
        /\ \A i \in 0..(Len(walker.content.cookware) - 1) : CookwareRelationValid(i)

\* the walk is over and the content has an inline quantity, a component item
\* and a reference to a section
C4_Witness ==
    /\ pc = "done"
    /\ \E s \in 1..Len(AllSections) :
          \E p \in 1..Len(AllSections[s].steps) :
              /\ \E k \in 1..Len(AllSections[s].steps[p].items) :
                    AllSections[s].steps[p].items[k].kind = "InlineQuantity"
              /\ \E k \in 1..Len(AllSections[s].steps[p].items) :
                    AllSections[s].steps[p].items[k].kind = "ItemComponent"
    /\ \E i \in 1..Len(walker.content.ingredients) :
          /\ walker.content.ingredients[i].relation.kind = "Reference"
          /\ walker.content.ingredients[i].relation.target = "SectionTarget"

(* ------------------------------- parser ------------------------------- *)
\* a token of the lexer: its kind and the text it covers. The kind of a
\* punctuation token is the character itself; "meta" is >>.
Tok(kind, str) == [kind |-> kind, str |-> str]

\* extension flags the parser reads
COMPONENT_MODIFIERS == "COMPONENT_MODIFIERS"
COMPONENT_NOTE == "COMPONENT_NOTE"
COMPONENT_ALIAS == "COMPONENT_ALIAS"
MULTILINE_STEPS == "MULTILINE_STEPS"
TIMER_REQUIRES_TIME == "TIMER_REQUIRES_TIME"

\* LineParser::new: the sub-parser of one line
LineParser_new(line_no, base_offset, tokens, extensions) ==
    [line_no |-> line_no, base_offset |-> base_offset, tokens |-> tokens, current |-> 0,
     context |-> [errors |-> <<>>, warnings |-> <<>>],
     extensions |-> extensions, panic |-> "none"]

\* the sum of the first n of the lengths lens
RECURSIVE sum_len(_, _)
sum_len(lens, n) == IF n = 0 THEN 0 ELSE lens[n] + sum_len(lens, n - 1)

\* Token::len over adjacent tokens: an escaped token is a backslash and a character
tokens_len(tokens) ==
    sum_len([i \in 1..Len(tokens) |->
                IF tokens[i].kind = "escaped" THEN 2 ELSE Len(tokens[i].str)],
            Len(tokens))

\* LineParser::current_offset
current_offset(lp) == lp.base_offset + tokens_len(SubSeq(lp.tokens, 1, lp.current))

\* LineParser::error and LineParser::warn
lp_error(lp, e) == [lp EXCEPT !.context.errors = Append(@, e)]
lp_warn(lp, w) == [lp EXCEPT !.context.warnings = Append(@, w)]

\* LineParser::extension
extension(lp, ext) == ext \in lp.extensions

\* LineParser::rest
rest(lp) == SubSeq(lp.tokens, lp.current + 1, Len(lp.tokens))

\* LineParser::peek
peek(lp) ==
    IF lp.current < Len(lp.tokens) THEN lp.tokens[lp.current + 1].kind ELSE "eof"

\* the result of a sub-parser: the line parser after it and what it returned
Parsed(lp, out) == [lp |-> lp, out |-> out]
Fail(lp) == [lp |-> lp, out |-> None]

\* iter().position() for "the kind is one of kinds": 0-based, None if absent
position(tokens, kinds) ==
    IF \E i \in 1..Len(tokens) : tokens[i].kind \in kinds
    THEN Some((CHOOSE i \in 1..Len(tokens) :
                  /\ tokens[i].kind \in kinds
                  /\ \A j \in 1..(i - 1) : tokens[j].kind \notin kinds) - 1)
    ELSE None

\* the cursor moved by n tokens
advance(lp, n) == [lp EXCEPT !.current = @ + n]

\* LineParser::consume_rest
consume_rest(lp) == Parsed(advance(lp, Len(rest(lp))), rest(lp))

\* LineParser::until: the tokens before the first one of kinds; None, and
\* nothing consumed, when there is none
until(lp, kinds) ==
    IF position(rest(lp), kinds) = None THEN Fail(lp)
    ELSE Parsed(advance(lp, Unwrap(position(rest(lp), kinds))),
                Some(SubSeq(rest(lp), 1, Unwrap(position(rest(lp), kinds)))))

\* LineParser::consume_while: the leading tokens of kinds
consume_while(lp, kinds) ==
    LET
        \* the number of leading tokens whose kind is one of kinds
        run_length(tokens, k) ==
            IF \A i \in 1..Len(tokens) : tokens[i].kind \in k
            THEN Len(tokens)
            ELSE (CHOOSE i \in 1..Len(tokens) :
                     /\ tokens[i].kind \notin k
                     /\ \A j \in 1..(i - 1) : tokens[j].kind \in k) - 1
    IN
        Parsed(advance(lp, run_length(rest(lp), kinds)),
               SubSeq(rest(lp), 1, run_length(rest(lp), kinds)))

\* LineParser::bump_any: panics at the end of the line
bump_any(lp) ==
    IF lp.current < Len(lp.tokens) THEN advance(lp, 1)
    ELSE [lp EXCEPT !.panic = "Expected token, but there was none"]

\* LineParser::bump: panics unless the next token is the expected one
bump(lp, expected) ==
    IF peek(lp) = expected THEN advance(lp, 1)
    ELSE IF peek(lp) = "eof" THEN bump_any(lp)
    ELSE [advance(lp, 1) EXCEPT !.panic = "Expected token kind"]

\* LineParser::consume: the next token if it is the expected one
consume(lp, expected) ==
    IF peek(lp) = expected
    THEN Parsed(advance(lp, 1), Some(lp.tokens[lp.current + 1]))
    ELSE Fail(lp)

\* a recovery that leaves the cursor where f left it
with_recover_consumed(old, r) == r

\* LineParser::with_recover: old is the line parser before f ran and r the
\* result of f; the cursor is restored when f failed, the context is not
with_recover(old, r) ==
    IF r.out = None THEN [r EXCEPT !.lp.current = old.current] ELSE r

\* LineParser::text: the fragments of a token slice. A fragment is the run of
\* token texts it covers; comments end a fragment and are dropped; an escaped
\* token starts a fragment without its backslash; no fragment is empty
RECURSIVE text_fragments(_, _)
text_fragments(tokens, fragment) ==
    IF tokens = <<>>
    THEN IF fragment = <<>> THEN <<>> ELSE <<fragment>>
    ELSE IF Head(tokens).kind \in {"line comment", "block comment"}
    THEN (IF fragment = <<>> THEN <<>> ELSE <<fragment>>)
         \o text_fragments(Tail(tokens), <<>>)
    ELSE IF Head(tokens).kind = "escaped"
    THEN (IF fragment = <<>> THEN <<>> ELSE <<fragment>>)
         \o text_fragments(Tail(tokens), <<Head(tokens).str>>)
    ELSE text_fragments(Tail(tokens), Append(fragment, Head(tokens).str))

LineParser_text(tokens) == [fragments |-> text_fragments(tokens, <<>>)]

\* LineParser::text with the offsets: the Text at offset of the tokens, every
\* fragment with its own offset; pending is the text input[start..end]
RECURSIVE text_at(_, _, _, _, _)
text_at(tokens, fragments, start, end, pending) ==
    LET
        \* Text::append_fragment: an empty fragment is not kept
        append_str(f, s, p) ==
            IF p = <<>> THEN f ELSE Append(f, [text |-> p, offset |-> s])
    IN
        IF tokens = <<>> THEN append_str(fragments, start, pending)
        ELSE IF Head(tokens).kind \in {"line comment", "block comment"}
        THEN text_at(Tail(tokens), append_str(fragments, start, pending),
                     end + tokens_len(<<Head(tokens)>>),
                     end + tokens_len(<<Head(tokens)>>), <<>>)
        ELSE IF Head(tokens).kind = "escaped"
        THEN text_at(Tail(tokens), append_str(fragments, start, pending),
                     end + 1, end + 2, <<Head(tokens).str>>)
        ELSE text_at(Tail(tokens), fragments, start,
                     end + tokens_len(<<Head(tokens)>>),
                     Append(pending, Head(tokens).str))

LineParser_text_at(offset, tokens) ==
    [offset |-> offset, fragments |-> text_at(tokens, <<>>, offset, offset, <<>>)]

\* Text::span and Item::span, as <<start, end>>
Text_span(t) ==
    IF t.fragments = <<>> THEN <<t.offset, t.offset>>
    ELSE <<t.offset,
           Last(t.fragments).offset
               + sum_len([i \in 1..Len(Last(t.fragments).text) |->
                             Len(Last(t.fragments).text[i])],
                         Len(Last(t.fragments).text))>>
Item_span(item) == IF item.kind = "Text" THEN Text_span(item.text) ELSE item.span

\* Text::is_text_empty: every fragment is blank
is_text_empty(t) ==
    \A i \in 1..Len(t.fragments) :
        \A j \in 1..Len(t.fragments[i]) : t.fragments[i][j] = " "

\* the span of a diagnostic of the parser: the line and the token position
TokenSpan(lp, pos, part) == <<lp.line_no, pos, part>>

comp_body(lp) ==
    LET
        \* comp_body, the first form: name { quantity }
        Body(name, close, quantity_tokens) ==
            [name |-> name, close |-> close, quantity |-> quantity_tokens]

        \* r is the result of until('}'): the quantity is kept when a token of it is
        \* neither whitespace nor a block comment
        long_body_close(r, name, close_start) ==
            IF r.out = None THEN Fail(r.lp)
            ELSE Parsed(bump(r.lp, "}"),
                        Some(Body(name, Some(close_start),
                                  IF \E i \in 1..Len(Unwrap(r.out)) :
                                        Unwrap(r.out)[i].kind \notin {"ws", "block comment"}
                                  THEN Some(Unwrap(r.out)) ELSE None)))

        \* r is the result of consume('{')
        long_body_quantity(r, name) ==
            IF r.out = None THEN Fail(r.lp)
            ELSE long_body_close(until(r.lp, {"}"}), name, r.lp.current - 1)

        \* r is the result of until('{' | '@' | '#' | '~')
        long_body_open(r) ==
            IF r.out = None THEN Fail(r.lp)
            ELSE long_body_quantity(consume(r.lp, "{"), Unwrap(r.out))

        long_body(l) == long_body_open(until(l, {"{", "@", "#", "~"}))

        \* comp_body, the second form: one word; r is the result of consume_while
        short_body_of(r) ==
            IF r.out = <<>> THEN Fail(r.lp)
            ELSE Parsed(r.lp, Some(Body(r.out, None, None)))

        short_body(l) == short_body_of(consume_while(l, {"word", "int", "float"}))

        \* comp_body: r is the recovered result of the first form
        comp_body_or_else(r) ==
            IF r.out # None THEN r ELSE with_recover(r.lp, short_body(r.lp))
    IN
        comp_body_or_else(with_recover(lp, long_body(lp)))

\* modifiers
modifiers(lp) == consume_while(lp, {"@", "&", "?", "+", "-"})

note(lp) ==
    LET
        \* note: r is the result of until(')')
        note_close(r) ==
            IF r.out = None THEN Fail(r.lp)
            ELSE Parsed(bump(r.lp, ")"), Some(LineParser_text(Unwrap(r.out))))

        \* note: r is the result of consume('(')
        note_open(r) ==
            IF r.out = None THEN Fail(r.lp) ELSE note_close(until(r.lp, {")"}))
    IN
        IF extension(lp, COMPONENT_NOTE)
        THEN with_recover(lp, note_open(consume(lp, "(")))
        ELSE Fail(lp)

\* parse_modifiers: the line parser and the modifiers
parse_modifiers(lp, modifiers_tokens, modifiers_pos) ==
    LET
        \* the modifier a token stands for
        ModifierOf(kind) ==
            CASE kind = "@" -> "RECIPE"
              [] kind = "&" -> "REF"
              [] kind = "?" -> "OPT"
              [] kind = "+" -> "NEW"
              [] kind = "-" -> "HIDDEN"

        \* parse_modifiers, the try_fold: the position of the first token that
        \* repeats an earlier one, 0 when there is none
        FirstDuplicate(tokens) ==
            IF \E i \in 1..Len(tokens) : \E j \in 1..(i - 1) : tokens[j].kind = tokens[i].kind
            THEN CHOOSE i \in 1..Len(tokens) :
                     /\ \E j \in 1..(i - 1) : tokens[j].kind = tokens[i].kind
                     /\ \A k \in 1..(i - 1) :
                            \A j \in 1..(k - 1) : tokens[j].kind # tokens[k].kind
            ELSE 0
    IN
        IF modifiers_tokens = <<>> THEN Parsed(lp, {})
        ELSE IF ~extension(lp, COMPONENT_MODIFIERS)
        THEN Parsed(lp_error(lp, Diag("ExtensionNotEnabled",
                                      TokenSpan(lp, modifiers_pos, "modifiers"),
                                      [extension_name |-> "component modifiers"])),
                    {})
        ELSE IF FirstDuplicate(modifiers_tokens) # 0
        THEN Parsed(lp_error(lp, Diag("DuplicateModifiers",
                                      TokenSpan(lp, modifiers_pos, "modifiers"),
                                      [dup |-> modifiers_tokens[
                                                  FirstDuplicate(modifiers_tokens)].str])),
                    {})
        ELSE Parsed(lp, {ModifierOf(modifiers_tokens[i].kind) :
                            i \in 1..Len(modifiers_tokens)})

\* parse_alias: the line parser, the name and the alias
parse_alias(container, lp, tokens) ==
    LET
        \* parse_alias with a separator at the 0-based position alias_sep
        alias_split(c, l, t, alias_sep) ==
            [lp |-> IF \E i \in (alias_sep + 2)..Len(t) : t[i].kind = "|"
                    THEN lp_error(l, Diag("ComponentPartInvalid",
                                           TokenSpan(l, alias_sep, "alias"),
                                           [container |-> c, what |-> "alias",
                                            reason |-> "multiple aliases"]))
                    ELSE IF is_text_empty(LineParser_text(
                                              SubSeq(t, alias_sep + 2, Len(t))))
                    THEN lp_error(l, Diag("ComponentPartInvalid",
                                           TokenSpan(l, alias_sep, "alias"),
                                           [container |-> c, what |-> "alias",
                                            reason |-> "is empty"]))
                    ELSE l,
             name |-> LineParser_text(SubSeq(t, 1, alias_sep)),
             alias |-> IF \/ \E i \in (alias_sep + 2)..Len(t) : t[i].kind = "|"
                          \/ is_text_empty(LineParser_text(
                                               SubSeq(t, alias_sep + 2, Len(t))))
                       THEN None
                       ELSE Some(LineParser_text(SubSeq(t, alias_sep + 2, Len(t))))]
    IN
        IF extension(lp, COMPONENT_ALIAS) /\ position(tokens, {"|"}) # None
        THEN alias_split(container, lp, tokens, Unwrap(position(tokens, {"|"})))
        ELSE [lp |-> lp, name |-> LineParser_text(tokens), alias |-> None]

\* parse_quantity on the tokens between the braces: value (| value)* *? (% unit)?
parse_quantity(tokens) ==
    LET
        \* the tokens of a slice that are not whitespace
        NonWs(to) == SelectSeq(to, LAMBDA t : t.kind # "ws")

        \* one value of a quantity: a number for an int token, a text otherwise
        ParsedValue(token) ==
            IF token.kind = "int" THEN Number(DigitVal(token.str), 0)
            ELSE [t |-> "Text", n |-> token.str, d |-> 0]

        \* the value part of a quantity: values separated by |, * after a single one
        ParsedQuantityValue(to) ==
            IF SelectSeq(to, LAMBDA t : t.kind \notin {"|", "*"}) = <<>>
            THEN [k |-> "Single", values |-> <<Number(1, 0)>>, auto_scale |-> None]
            ELSE IF position(to, {"|"}) # None
            THEN [k |-> "Many",
                  values |-> [i \in 1..Len(SelectSeq(to, LAMBDA t : t.kind \notin {"|", "*"}))
                                |-> ParsedValue(SelectSeq(to,
                                        LAMBDA t : t.kind \notin {"|", "*"})[i])],
                  auto_scale |-> None]
            ELSE [k |-> "Single",
                  values |-> <<ParsedValue(SelectSeq(to,
                                   LAMBDA t : t.kind \notin {"|", "*"})[1])>>,
                  auto_scale |-> position(to, {"*"})]
    IN
        IF position(tokens, {"%"}) = None
        THEN [quantity |-> [value |-> ParsedQuantityValue(NonWs(tokens)), unit |-> None],
              unit_separator |-> None]
        ELSE [quantity |->
                 [value |-> ParsedQuantityValue(
                                NonWs(SubSeq(tokens, 1, Unwrap(position(tokens, {"%"}))))),
                  unit |-> Some(LineParser_text(
                               SubSeq(tokens, Unwrap(position(tokens, {"%"})) + 2,
                                      Len(tokens))))],
              unit_separator |-> position(tokens, {"%"})]

\* Recover::recover of a quantity
Quantity_recover ==
    [value |-> [k |-> "Single", values |-> <<Number(1, 0)>>, auto_scale |-> None],
     unit |-> None]

\* step::ingredient
parser_ingredient(lp) ==
    LET
        \* ingredient, the AST node; rm is the result of parse_modifiers
        parser_ingredient_build(rm, name, alias, body_note, body) ==
            Parsed(rm.lp,
                   Some([kind |-> "Ingredient", modifiers |-> rm.out, name |-> name,
                         alias |-> alias,
                         quantity |-> IF body.quantity = None THEN None
                                      ELSE Some(parse_quantity(Unwrap(body.quantity)).quantity),
                         note |-> body_note]))

        \* ingredient, the checks; ra is the result of parse_alias
        parser_ingredient_checks(ra, body_note, body, modifiers_tokens, modifiers_pos) ==
            parser_ingredient_build(
                parse_modifiers(
                    IF is_text_empty(ra.name)
                    THEN lp_error(ra.lp, Diag("ComponentPartInvalid",
                                              TokenSpan(ra.lp, modifiers_pos, "name"),
                                              [container |-> "ingredient", what |-> "name",
                                               reason |-> "is empty"]))
                    ELSE ra.lp,
                    modifiers_tokens, modifiers_pos),
                ra.name, ra.alias, body_note, body)

        \* ingredient, rn is the result of note
        parser_ingredient_alias(rn, body, modifiers_tokens, modifiers_pos) ==
            parser_ingredient_checks(parse_alias("ingredient", rn.lp, body.name),
                                     rn.out, body, modifiers_tokens, modifiers_pos)

        \* ingredient, rb is the result of comp_body
        parser_ingredient_note(rb, modifiers_tokens, modifiers_pos) ==
            IF rb.out = None THEN Fail(rb.lp)
            ELSE parser_ingredient_alias(note(rb.lp), Unwrap(rb.out),
                                         modifiers_tokens, modifiers_pos)

        \* ingredient, rm is the result of modifiers
        parser_ingredient_body(rm, modifiers_pos) ==
            parser_ingredient_note(comp_body(rm.lp), rm.out, modifiers_pos)

        \* ingredient, r is the result of consume('@')
        parser_ingredient_modifiers(r) ==
            IF r.out = None THEN Fail(r.lp)
            ELSE parser_ingredient_body(modifiers(r.lp), r.lp.current)
    IN
        parser_ingredient_modifiers(consume(lp, "@"))

\* a diagnostic about a part of a component
PartDiag(kind, lp, pos, container, what) ==
    Diag(kind, TokenSpan(lp, pos, what), [container |-> container, what |-> what])

\* step::cookware
parser_cookware(lp) ==
    LET
        \* cookware, the checks of a parsed quantity q: no unit, no auto scale marker
        cookware_quantity_unit(l, q, pos) ==
            IF IsSome(q.quantity.unit)
            THEN lp_error(l, PartDiag("ComponentPartNotAllowed", l, pos,
                                       "cookware", "unit in quantity"))
            ELSE l

        cookware_quantity_auto_scale(l, q, pos) ==
            IF q.quantity.value.k = "Single" /\ IsSome(q.quantity.value.auto_scale)
            THEN lp_error(l, PartDiag("ComponentPartNotAllowed", l, pos,
                                       "cookware", "auto scale marker"))
            ELSE l

        cookware_quantity_checks(l, body, pos) ==
            IF body.quantity = None THEN l
            ELSE cookware_quantity_auto_scale(
                     cookware_quantity_unit(l, parse_quantity(Unwrap(body.quantity)), pos),
                     parse_quantity(Unwrap(body.quantity)), pos)

        \* cookware, the AST node; rm is the result of parse_modifiers
        parser_cookware_build(rm, name, alias, body_note, body, modifiers_pos) ==
            Parsed(IF "RECIPE" \in rm.out
                   THEN lp_error(rm.lp, Diag("ComponentPartInvalid",
                                             TokenSpan(rm.lp, modifiers_pos, "modifiers"),
                                             [container |-> "cookware", what |-> "modifiers",
                                              reason |-> "recipe modifier not allowed in cookware"]))
                   ELSE rm.lp,
                   Some([kind |-> "Cookware", modifiers |-> rm.out, name |-> name,
                         alias |-> alias,
                         quantity |-> IF body.quantity = None THEN None
                                      ELSE Some(parse_quantity(Unwrap(body.quantity))
                                                    .quantity.value),
                         note |-> body_note]))

        \* cookware, the checks; ra is the result of parse_alias
        parser_cookware_checks(ra, body_note, body, modifiers_tokens, modifiers_pos) ==
            parser_cookware_build(
                parse_modifiers(
                    cookware_quantity_checks(
                        IF is_text_empty(ra.name)
                        THEN lp_error(ra.lp, Diag("ComponentPartInvalid",
                                                  TokenSpan(ra.lp, modifiers_pos, "name"),
                                                  [container |-> "cookware", what |-> "name",
                                                   reason |-> "is empty"]))
                        ELSE ra.lp,
                        body, modifiers_pos),
                    modifiers_tokens, modifiers_pos),
                ra.name, ra.alias, body_note, body, modifiers_pos)

        \* cookware, rn is the result of note
        parser_cookware_alias(rn, body, modifiers_tokens, modifiers_pos) ==
            parser_cookware_checks(parse_alias("cookware", rn.lp, body.name),
                                   rn.out, body, modifiers_tokens, modifiers_pos)

        \* cookware, rb is the result of comp_body
        parser_cookware_note(rb, modifiers_tokens, modifiers_pos) ==
            IF rb.out = None THEN Fail(rb.lp)
            ELSE parser_cookware_alias(note(rb.lp), Unwrap(rb.out),
                                       modifiers_tokens, modifiers_pos)

        \* cookware, rm is the result of modifiers
        parser_cookware_body(rm, modifiers_pos) ==
            parser_cookware_note(comp_body(rm.lp), rm.out, modifiers_pos)

        \* cookware, r is the result of consume('#')
        parser_cookware_modifiers(r) ==
            IF r.out = None THEN Fail(r.lp)
            ELSE parser_cookware_body(modifiers(r.lp), r.lp.current)
    IN
        parser_cookware_modifiers(consume(lp, "#"))

\* check_modifiers
check_modifiers(lp, modifiers_tokens, container, pos) ==
    IF modifiers_tokens # <<>>
    THEN lp_error(lp, PartDiag("ComponentPartNotAllowed", lp, pos, container, "modifiers"))
    ELSE lp

\* check_alias
check_alias(lp, name_tokens, container, pos) ==
    IF position(name_tokens, {"|"}) # None
    THEN lp_error(lp, PartDiag("ComponentPartNotAllowed", lp, pos, container, "alias"))
    ELSE lp

\* check_note
check_note(lp, container) ==
    LET
        \* check_note, the closure: r is the result of until(')'); it warns and
        \* returns None, so that with_recover restores the cursor
        check_note_close(r, c, pos) ==
            IF r.out = None THEN Fail(r.lp)
            ELSE Fail(lp_warn(bump(r.lp, ")"),
                              PartDiag("ComponentPartIgnored", r.lp, pos, c, "note")))

        \* check_note, the closure: r is the result of consume('(')
        check_note_open(r, c) ==
            IF r.out = None THEN Fail(r.lp)
            ELSE check_note_close(until(r.lp, {")"}), c, r.lp.current - 1)
    IN
        IF ~extension(lp, COMPONENT_NOTE) THEN lp
        ELSE with_recover(lp, check_note_open(consume(lp, "("), container)).lp

\* step::timer
parser_timer(lp) ==
    LET
        \* timer, the AST node: a timer without name and quantity is an error and
        \* gets the recovered quantity
        parser_timer_build(l, name, parsed_quantity, pos) ==
            IF name = None /\ parsed_quantity = None
            THEN Parsed(lp_error(l, PartDiag("ComponentPartMissing", l, pos,
                                              "timer", "quantity OR name")),
                        Some([kind |-> "Timer", name |-> None,
                              quantity |-> Some(Quantity_recover)]))
            ELSE Parsed(l, Some([kind |-> "Timer", name |-> name,
                                  quantity |-> parsed_quantity]))

        \* timer, the TIMER_REQUIRES_TIME check
        parser_timer_requires(l, name, parsed_quantity, pos) ==
            IF parsed_quantity = None /\ extension(l, TIMER_REQUIRES_TIME)
            THEN parser_timer_build(
                     lp_error(l, PartDiag("ComponentPartMissing", l, pos, "timer", "quantity")),
                     name, Some(Quantity_recover), pos)
            ELSE parser_timer_build(l, name, parsed_quantity, pos)

        \* timer, the checks of a parsed quantity q: no auto scale marker, a unit
        timer_quantity_auto_scale(l, q, pos) ==
            IF q.quantity.value.k = "Single" /\ IsSome(q.quantity.value.auto_scale)
            THEN lp_error(l, PartDiag("ComponentPartNotAllowed", l, pos,
                                       "timer", "auto scale marker"))
            ELSE l

        timer_quantity_unit(l, q, pos) ==
            IF q.quantity.unit = None
            THEN lp_error(l, PartDiag("ComponentPartMissing", l, pos, "timer", "quantity unit"))
            ELSE l

        timer_quantity_checks(l, body, pos) ==
            IF body.quantity = None THEN l
            ELSE timer_quantity_unit(
                     timer_quantity_auto_scale(l, parse_quantity(Unwrap(body.quantity)), pos),
                     parse_quantity(Unwrap(body.quantity)), pos)

        \* timer, the quantity and the name of the body
        parser_timer_quantity(l, body, pos) ==
            parser_timer_requires(
                timer_quantity_checks(l, body, pos),
                IF is_text_empty(LineParser_text(body.name)) THEN None
                ELSE Some(LineParser_text(body.name)),
                IF body.quantity = None THEN None
                ELSE Some(parse_quantity(Unwrap(body.quantity)).quantity),
                pos)

        \* timer, rb is the result of comp_body: the three checks
        parser_timer_checks(rb, modifiers_tokens, name_offset) ==
            IF rb.out = None THEN Fail(rb.lp)
            ELSE parser_timer_quantity(
                     check_note(
                         check_alias(
                             check_modifiers(rb.lp, modifiers_tokens, "timer", name_offset),
                             Unwrap(rb.out).name, "timer", name_offset),
                         "timer"),
                     Unwrap(rb.out), name_offset)

        \* timer, rm is the result of modifiers
        parser_timer_body(rm) == parser_timer_checks(comp_body(rm.lp), rm.out, rm.lp.current)

        \* timer, r is the result of consume('~')
        parser_timer_modifiers(r) ==
            IF r.out = None THEN Fail(r.lp) ELSE parser_timer_body(modifiers(r.lp))
    IN
        parser_timer_modifiers(consume(lp, "~"))

\* the token kinds of the lexer
TokenKinds ==
    {"ws", "word", "int", "float", "@", "#", "~", "&", "?", "+", "-", "{", "}",
     "(", ")", ">", "|", "%", "*", ":", "=", "meta", "escaped",
     "line comment", "block comment"}

\* the result of step
ParsedStep(lp, is_text_step, items) ==
    [lp |-> lp, is_text |-> is_text_step, items |-> items]

RECURSIVE parser_step_loop(_, _)

\* step, the loop over the rest of the line
parser_step_loop(lp, items) ==
    LET
        \* step, the component the line has at the cursor, under with_recover
        parser_step_component(l) ==
            IF peek(l) = "@" THEN with_recover(l, parser_ingredient(l))
            ELSE IF peek(l) = "#" THEN with_recover(l, parser_cookware(l))
            ELSE IF peek(l) = "~" THEN with_recover(l, parser_timer(l))
            ELSE Fail(l)

        \* step, the text item: one token and all that follow up to the next sigil;
        \* from is the cursor before them and rc the result of consume_while
        parser_step_text(from, rc, i) ==
            parser_step_loop(rc.lp,
                Append(i, [kind |-> "Text",
                               text |-> LineParser_text_at(
                                            from.offset,
                                            SubSeq(rc.lp.tokens, from.current + 1,
                                                   rc.lp.current))]))

        \* step, one iteration; r is the result of the component parser
        \* start is the offset of the cursor before the item
        parser_step_item(r, i, start) ==
            IF r.out # None
            THEN parser_step_loop(r.lp, Append(i, [kind |-> "Component",
                                                       c |-> Unwrap(r.out),
                                                       span |-> <<start,
                                                                  current_offset(r.lp)>>]))
            ELSE parser_step_text([current |-> r.lp.current, offset |-> start],
                                  consume_while(bump_any(r.lp), TokenKinds \ {"@", "#", "~"}),
                                  i)
    IN
        IF rest(lp) = <<>> \/ lp.panic # "none" THEN ParsedStep(lp, FALSE, items)
        ELSE parser_step_item(parser_step_component(lp), items, current_offset(lp))

\* step::step
parser_step(lp, force_text) ==
    LET
        \* step, r is the result of consume('>')
        parser_step_marker(r, f) ==
            IF r.out # None \/ f
            THEN ParsedStep(consume_rest(r.lp).lp, r.out # None,
                            <<[kind |-> "Text",
                               text |-> LineParser_text_at(current_offset(r.lp),
                                                           rest(r.lp))]>>)
            ELSE parser_step_loop(r.lp, <<>>)
    IN
        parser_step_marker(consume(lp, ">"), force_text)

metadata_entry(lp) ==
    LET
        \* metadata_entry: >> key : value; r is the result of until(':'). An empty
        \* value is warned about
        metadata_entry_value(r) ==
            IF r.out = None THEN Fail(r.lp)
            ELSE Parsed(IF is_text_empty(LineParser_text(rest(bump(r.lp, ":"))))
                        THEN lp_warn(consume_rest(bump(r.lp, ":")).lp,
                                     Diag("EmptyMetadataValue",
                                          TokenSpan(r.lp, r.lp.current, "value"), NoData))
                        ELSE consume_rest(bump(r.lp, ":")).lp,
                        Some([kind |-> "Metadata",
                              key |-> LineParser_text_at(
                                          current_offset(r.lp)
                                              - tokens_len(Unwrap(r.out)),
                                          Unwrap(r.out)),
                              value |-> LineParser_text_at(
                                            current_offset(bump(r.lp, ":")),
                                            rest(bump(r.lp, ":")))]))
    IN
        metadata_entry_value(until(bump(lp, "meta"), {":"}))

section(lp) ==
    LET
        \* section: one or more =, a name, and = again up to the end of the line
        section_name(l) ==
            Parsed(consume_rest(l).lp,
                   Some([kind |-> "Section",
                         name |-> IF is_text_empty(LineParser_text(
                                         SelectSeq(rest(l), LAMBDA t : t.kind # "=")))
                                  THEN None
                                  ELSE Some(LineParser_text(
                                           SelectSeq(rest(l), LAMBDA t : t.kind # "=")))]))
    IN
        section_name(consume_while(lp, {"="}).lp)

\* Text::trim_fragments_end and Text::trim_fragments_start on the fragments:
\* the blank texts at that end are dropped, and so is a fragment left empty
RECURSIVE trim_fragments_end(_)
trim_fragments_end(fragments) ==
    IF fragments = <<>> THEN <<>>
    ELSE IF Last(fragments).text = <<>>
    THEN trim_fragments_end(SubSeq(fragments, 1, Len(fragments) - 1))
    ELSE IF Last(Last(fragments).text) = " "
    THEN trim_fragments_end(
             [fragments EXCEPT ![Len(fragments)].text = SubSeq(@, 1, Len(@) - 1)])
    ELSE fragments

RECURSIVE trim_fragments_start(_)
trim_fragments_start(fragments) ==
    IF fragments = <<>> THEN <<>>
    ELSE IF Head(fragments).text = <<>> THEN trim_fragments_start(Tail(fragments))
    ELSE IF Head(Head(fragments).text) = " "
    THEN trim_fragments_start([fragments EXCEPT ![1].text = Tail(@),
                                                ![1].offset = @ + 1])
    ELSE fragments

\* parse_line, the join: the items of the previous step with the end of the
\* last text trimmed, and the text dropped when nothing is left of it
join_trim_end(items) ==
    IF items # <<>> /\ Last(items).kind = "Text"
    THEN IF trim_fragments_end(Last(items).text.fragments) = <<>>
         THEN SubSeq(items, 1, Len(items) - 1)
         ELSE [items EXCEPT ![Len(items)].text.fragments = trim_fragments_end(@)]
    ELSE items

\* parse_line, the join: the items of the new step with the start of the
\* first text trimmed
join_trim_start(items) ==
    IF items[1].kind = "Text"
    THEN IF trim_fragments_start(items[1].text.fragments) = <<>>
         THEN Tail(items)
         ELSE [items EXCEPT ![1].text.fragments = trim_fragments_start(@),
                            ![1].text.offset =
                                Head(trim_fragments_start(items[1].text.fragments)).offset]
    ELSE items

\* Text::from_str
Text_from_str(str, offset) ==
    [offset |-> offset,
     fragments |-> IF str = "" THEN <<>> ELSE <<[text |-> <<str>>, offset |-> offset]>>]

\* the result of parse_line: the line parser, the lines and the flag
LineResult(lp, ast_lines, last_empty) ==
    [lp |-> lp, lines |-> ast_lines, last_empty |-> last_empty]

\* parse_line, the line is joined to the previous step; r is the parsed step
parse_line_join(r, ast_lines, last_empty) ==
    IF r.items # <<>>
    THEN LineResult(r.lp,
                    [ast_lines EXCEPT ![Len(ast_lines)].items =
                        join_trim_end(@)
                        \o <<[kind |-> "Text",
                              text |-> Text_from_str(" ", Item_span(Last(@))[2])]>>
                        \o join_trim_start(r.items)],
                    last_empty)
    ELSE LineResult(r.lp, ast_lines, last_empty)

\* parse_line that joins a step line also after an empty line
parse_line_after_empty(lp, ast_lines, last_empty) ==
    LET
        \* parse_line, the line is a step of its own; r is the parsed step
        parse_line_step(r, prev_lines) ==
            LineResult(r.lp,
                       Append(prev_lines, [kind |-> "Step", is_text |-> r.is_text,
                                           items |-> r.items]),
                       FALSE)

        \* parse_line, r is the recovered result of metadata_entry or section
        parse_line_dispatch(r, prev_lines, prev_empty) ==
            IF r.out # None
            THEN LineResult(r.lp, Append(prev_lines, Unwrap(r.out)), FALSE)
            ELSE IF /\ extension(r.lp, MULTILINE_STEPS)
                    /\ prev_lines # <<>>
                    /\ Last(prev_lines).kind = "Step"
            THEN parse_line_join(parser_step(r.lp, Last(prev_lines).is_text),
                                 prev_lines, prev_empty)
            ELSE parse_line_step(parser_step(r.lp, FALSE), prev_lines)
    IN
        IF \A i \in 1..Len(lp.tokens) :
              lp.tokens[i].kind \in {"ws", "line comment", "block comment"}
        THEN LineResult(consume_rest(lp).lp, ast_lines, TRUE)
        ELSE parse_line_dispatch(
                 IF peek(lp) = "meta" THEN with_recover(lp, metadata_entry(lp))
                 ELSE IF peek(lp) = "=" THEN with_recover(lp, section(lp))
                 ELSE Fail(lp),
                 ast_lines, last_empty)

\* parse_line
parse_line(lp, ast_lines, last_empty) ==
    LET
        \* parse_line, the line is a step of its own; r is the parsed step
        parse_line_step(r, prev_lines) ==
            LineResult(r.lp,
                       Append(prev_lines, [kind |-> "Step", is_text |-> r.is_text,
                                           items |-> r.items]),
                       FALSE)

        \* parse_line, r is the recovered result of metadata_entry or section
        parse_line_dispatch(r, prev_lines, prev_empty) ==
            IF r.out # None
            THEN LineResult(r.lp, Append(prev_lines, Unwrap(r.out)), FALSE)
            ELSE IF /\ ~prev_empty
                    /\ extension(r.lp, MULTILINE_STEPS)
                    /\ prev_lines # <<>>
                    /\ Last(prev_lines).kind = "Step"
            THEN parse_line_join(parser_step(r.lp, Last(prev_lines).is_text),
                                 prev_lines, prev_empty)
            ELSE parse_line_step(parser_step(r.lp, FALSE), prev_lines)
    IN
        IF \A i \in 1..Len(lp.tokens) :
              lp.tokens[i].kind \in {"ws", "line comment", "block comment"}
        THEN LineResult(consume_rest(lp).lp, ast_lines, TRUE)
        ELSE parse_line_dispatch(
                 IF peek(lp) = "meta" THEN with_recover(lp, metadata_entry(lp))
                 ELSE IF peek(lp) = "=" THEN with_recover(lp, section(lp))
                 ELSE Fail(lp),
                 ast_lines, last_empty)

\* Context::append: the diagnostics of the other context are moved to the end
Context_append(ctx, other) ==
    [errors |-> ctx.errors \o other.errors,
     warnings |-> ctx.warnings \o other.warnings]

\* LineParser::finish: the assertion that every token of the line was parsed
LineParser_finish(lp) ==
    IF lp.panic # "none" THEN lp.panic
    ELSE IF lp.current # Len(lp.tokens) THEN "Line tokens not parsed. this is a bug"
    ELSE "none"

\* the body of the loop of parse where the context of a line is only taken
\* while the parser has no error yet
parse_next_until_error(self, r) ==
    [self EXCEPT !.lines = r.lines,
                 !.last_empty = r.last_empty,
                 !.consumed = @ + 1,
                 !.offset = @ + tokens_len(r.lp.tokens) + 1,
                 !.context = IF @.errors = <<>> THEN Context_append(@, r.lp.context)
                             ELSE @,
                 !.panic = LineParser_finish(r.lp)]

\* parse, the body of the loop after parse_line returned r: the line is
\* finished and its context appended to the context of the parser
parse_next(self, r) ==
    [self EXCEPT !.lines = r.lines,
                 !.last_empty = r.last_empty,
                 !.consumed = @ + 1,
                 !.offset = @ + tokens_len(r.lp.tokens) + 1,
                 !.context = Context_append(@, r.lp.context),
                 !.panic = LineParser_finish(r.lp)]

\* parse, one iteration of the loop on the tokens next_line hands out
parse_loop(self, tokens) ==
    parse_next(self, parse_line(LineParser_new(self.consumed + 1, self.offset, tokens,
                                               self.extensions),
                                self.lines, self.last_empty))

\* parse after the loop
parse_result(self) == finish(self.context, Some([lines |-> self.lines]))

ParseLine(tokens) ==
    /\ pc = "parse"
    /\ parser' = parse_loop(parser, tokens)
    /\ line' = [kind |-> "Tokens", tokens |-> tokens]
    /\ pc' = IF parser'.panic # "none" THEN "panic" ELSE pc
    /\ UNCHANGED <<walker, lines, result, parsed, quantity_vars>>

\* parse_metadata that keeps the lines it skips as steps without items
parse_metadata_loop_keep_lines(self, tokens) ==
    LET
        meta_line(r) ==
            [self EXCEPT !.lines = IF r.out # None THEN Append(@, Unwrap(r.out))
                                   ELSE Append(@, [kind |-> "Step", is_text |-> FALSE,
                                                   items |-> <<>>]),
                         !.consumed = @ + 1,
                         !.offset = @ + tokens_len(tokens) + 1]
        line_parser(l) ==
            IF peek(l) = "meta" THEN meta_line(with_recover(l, metadata_entry(l)))
            ELSE meta_line(Fail(consume_rest(l).lp))
    IN
        line_parser(LineParser_new(self.consumed + 1, self.offset, tokens, {}))

\* parse_metadata, one iteration of the loop on the tokens next_line hands
\* out: the line parser is dropped with its context, finished or not
parse_metadata_loop(self, tokens) ==
    LET
        \* parse_metadata, r is the recovered result of metadata_entry
        meta_line(r) ==
            [self EXCEPT !.lines = IF r.out # None THEN Append(@, Unwrap(r.out)) ELSE @,
                         !.consumed = @ + 1,
                         !.offset = @ + tokens_len(tokens) + 1]
        \* the line parser of the line; parse_metadata has no extensions
        line_parser(l) ==
            IF peek(l) = "meta" THEN meta_line(with_recover(l, metadata_entry(l)))
            ELSE meta_line(Fail(consume_rest(l).lp))
    IN
        line_parser(LineParser_new(self.consumed + 1, self.offset, tokens, {}))

ParseMetadataLine(tokens) ==
    /\ pc = "parse_metadata"
    /\ parser' = parse_metadata_loop(parser, tokens)
    /\ line' = [kind |-> "Tokens", tokens |-> tokens]
    /\ UNCHANGED <<walker, lines, result, parsed, pc, quantity_vars>>

\* parse and parse_metadata return; the analysis pass follows on an AST of
\* its own
ParseFinish ==
    /\ pc \in {"parse", "parse_metadata"}
    /\ parsed' = Some(parse_result(parser))
    /\ pc' = "walk"
    /\ UNCHANGED <<walker, lines, line, result, parser, quantity_vars>>

(* ------------------ specification: the two passes --------------------- *)
MaxLinesPasses == 2

\* the lines of tokens every parse of which as a step records an error: a
\* timer without name and quantity, and a modifier given twice
ErrorTokenLines ==
    LET EmptyTimerTokens == <<Tok("~", "~"), Tok("{", "{"), Tok("}", "}")>>
        DuplicateModifierTokens ==
            <<Tok("@", "@"), Tok("&", "&"), Tok("&", "&"), Tok("word", "salt")>>
    IN {EmptyTimerTokens, DuplicateModifierTokens}

\* the lines of tokens next_line hands out: the ones above, a blank line, a
\* text step, steps with a timer that has a note and with an ingredient, a
\* metadata entry without value and a section
PassTokenLines ==
    LET BlankTokens == <<Tok("ws", " ")>>
        TextStepTokens == <<Tok(">", ">"), Tok("ws", " "), Tok("word", "a")>>
        TimerNoteTokens ==
            <<Tok("~", "~"), Tok("word", "t"), Tok("(", "("), Tok("word", "n"),
              Tok(")", ")")>>
        IngredientTokens == <<Tok("@", "@"), Tok("word", "salt")>>
        EmptyMetadataTokens == <<Tok("meta", ">>"), Tok("word", "k"), Tok(":", ":")>>
        SectionTokens == <<Tok("=", "="), Tok("word", "s")>>
    IN ErrorTokenLines
       \cup {BlankTokens, TextStepTokens, TimerNoteTokens, IngredientTokens,
             EmptyMetadataTokens, SectionTokens}

\* AST lines: a define mode and a timer unit that are errors, a special key
\* that is a warning, and a step without diagnostics
BadModeLine == [kind |-> "Metadata", key |-> <<"[", "mode", "]">>, value |-> "bogus"]
UnknownKeyLine == [kind |-> "Metadata", key |-> <<"[", "bogus", "]">>, value |-> "x"]
MassTimerLine ==
    [kind |-> "Step", is_text |-> FALSE,
     items |-> <<ComponentItem(AstTimer(None,
                    Some(AstQuantity(Single(Number(1, 0), FALSE), Some("kg ")))))>>]
PlainStepLine == [kind |-> "Step", is_text |-> FALSE, items |-> <<TextItem(<<"a">>)>>]
ErrorAstLines == {BadModeLine, MassTimerLine}

InitPasses ==
    /\ walker = parse_ast({MODES, ADVANCED_UNITS}, TRUE, None)
    /\ lines = 0
    /\ line = NoLine
    /\ result = None
    /\ \E multiline \in SUBSET {MULTILINE_STEPS} :
          parser = Parser_new({COMPONENT_MODIFIERS, COMPONENT_NOTE} \cup multiline)
    /\ parsed = None
    /\ pc = "parse"
    /\ QuantityIdle

NextPasses ==
    \/ \E tokens \in PassTokenLines :
          parser.consumed < MaxLinesPasses /\ ParseLine(tokens)
    \/ ParseFinish
    \/ \E l \in {BadModeLine, UnknownKeyLine} :
          lines < MaxLinesPasses /\ MetadataLine(l.key, l.value)
    \/ \E l \in {MassTimerLine, PlainStepLine} :
          lines < MaxLinesPasses /\ StepLine(l.is_text, l.items)
    \/ Finish
SpecPasses == InitPasses /\ [][NextPasses]_vars

\* the steps of the two passes: a line keeps the diagnostics recorded before
\* it, a line with an error records it whatever was recorded before, and the
\* pass returns its value exactly when its context has no error
C5_PassStep ==
    LET
        \* a is the beginning of b
        IsPrefix(a, b) == Len(a) <= Len(b) /\ SubSeq(b, 1, Len(a)) = a

        \* parse_line is about to parse the next line as the text of the text step
        \* before it
        JoinsTextStep(self) ==
            /\ MULTILINE_STEPS \in self.extensions
            /\ ~self.last_empty
            /\ self.lines # <<>>
            /\ Last(self.lines).kind = "Step"
            /\ Last(self.lines).is_text

        \* the result r of a pass carries the diagnostics of the context ctx, and the
        \* value exactly when the context has no error
        CarriesValueIffNoError(r, ctx, expected) ==
            /\ r.errors = ctx.errors
            /\ r.warnings = ctx.warnings
            /\ IsSome(r.value) <=> ctx.errors = <<>>
            /\ IsSome(r.value) => Unwrap(r.value) = expected
    IN
        /\ pc = "parse" /\ pc' = "parse" =>
              /\ IsPrefix(parser.context.errors, parser'.context.errors)
              /\ IsPrefix(parser.context.warnings, parser'.context.warnings)
              /\ line'.tokens \in ErrorTokenLines /\ ~JoinsTextStep(parser) =>
                    /\ Len(parser'.context.errors) > Len(parser.context.errors)
                    /\ Last(parser'.context.errors).span[1] = parser'.consumed
        /\ pc = "parse" /\ pc' = "walk" =>
              CarriesValueIffNoError(Unwrap(parsed'), parser.context,
                                     [lines |-> parser.lines])
        /\ pc = "walk" /\ pc' = "walk" =>
              /\ IsPrefix(walker.context.errors, walker'.context.errors)
              /\ IsPrefix(walker.context.warnings, walker'.context.warnings)
              /\ line' \in ErrorAstLines =>
                    /\ Len(walker'.context.errors) > Len(walker.context.errors)
                    /\ Last(walker'.context.errors).span[1] = lines'
        /\ pc = "walk" /\ pc' = "done" =>
              /\ IsPrefix(walker.context.errors, walker'.context.errors)
              /\ CarriesValueIffNoError(Unwrap(result'), walker'.context, walker'.content)

\* C5: the result of the parse pass and of the analysis pass has a value
\* exactly when no error was recorded during the pass, warnings do not take
\* the value away, and a line after a recorded error still adds its own
\* diagnostics to the ones recorded so far
C5_ValueIffNoError == [][C5_PassStep]_vars

\* the parse pass returned an AST together with a warning, and the analysis
\* pass returned no value and the errors of two different lines
C5_Witness ==
    /\ pc = "done"
    /\ IsSome(parsed) /\ IsSome(Unwrap(parsed).value)
    /\ Unwrap(parsed).warnings # <<>>
    /\ IsSome(result) /\ Unwrap(result).value = None
    /\ \E i, j \in 1..Len(Unwrap(result).errors) :
          Unwrap(result).errors[i].span[1] # Unwrap(result).errors[j].span[1]

(* --------------- specification: temperatures in step text ------------- *)
MaxLinesTemperature == 2

\* step texts: a temperature alone, one with text before and after it and a
\* second temperature in the text after, a signed decimal one, texts without
\* a temperature, one whose first digit does not start the match, and texts
\* whose first temperature is written with a digit that is not ASCII
TemperatureTexts ==
    {<<"1", "C">>,
     <<"U+0663", "C">>,
     <<"U+0663", "C", " ", "1", "C">>,
     <<"a", " ", "1", " ", "C", " ", "b", " ", "2", "C">>,
     <<"-", "1", ",", "5", "0", "C">>,
     <<"a">>,
     <<"1", ".", "C">>,
     <<"1", " ", "2", "C">>}

InitTemperature ==
    \E extensions \in {{TEMPERATURE}, {TEMPERATURE, MODES}}, regex_compiles \in BOOLEAN :
        WalkInit(parse_ast(extensions, regex_compiles, None))

NextTemperature ==
    \/ \E v \in {"components", "all"} :
          lines < MaxLinesTemperature /\ MetadataLine(<<"[", "mode", "]">>, v)
    \/ \E t \in TemperatureTexts :
          lines < MaxLinesTemperature /\ StepLine(FALSE, <<TextItem(t)>>)
    \/ \E t1 \in {<<"a">>, <<"1", "C">>}, t2 \in {<<"1", " ", "2", "C">>, <<"U+0663", "C">>} :
          lines < MaxLinesTemperature /\ StepLine(FALSE, <<TextItem(t1), TextItem(t2)>>)
    \/ lines < MaxLinesTemperature /\ StepLine(TRUE, <<TextItem(<<"1", "C">>)>>)
    \/ Finish
SpecTemperature == InitTemperature /\ [][NextTemperature]_vars

\* a step of one or two text items walked with a temperature regex outside
\* the components mode gives the items and the inline quantities of C11; a
\* text is split at its first match, with needs_parse only when the number
\* of that match is one that str::parse::<f64> reads
C11_Step(needs_parse) ==
    LET
        \* t[i .. n - 1] is a number: a sign or none, digits, and a fraction or none
        IsNumber(t, i, n) ==
            \E s \in {i, i + 1} :
                /\ s = i + 1 => t[i] \in {"+", "-"}
                /\ \E e \in (s + 1)..n :
                      /\ \A q \in s..(e - 1) : t[q] \in RegexDigits
                      /\ \/ e = n
                         \/ /\ e + 1 < n
                            /\ t[e] \in {".", ","}
                            /\ \A q \in (e + 1)..(n - 1) : t[q] \in RegexDigits

        \* the matches of t: a number from i, whitespace from n, the symbol at u
        Matches(t) ==
            {m \in (1..Len(t)) \X (1..Len(t)) \X (1..Len(t)) :
                /\ m[1] < m[2] /\ m[2] <= m[3]
                /\ IsNumber(t, m[1], m[2])
                /\ \A q \in m[2]..(m[3] - 1) : t[q] = " "
                /\ t[m[3]] \in TemperatureSymbols}

        \* the first match of a text that has one
        First(t) == CHOOSE m \in Matches(t) : \A o \in Matches(t) : m[1] <= o[1]

        \* the number that a matched text denotes
        NumberOf(digits) ==
            CASE digits = <<"1">> -> Number(1, 0)
              [] digits = <<"2">> -> Number(2, 0)
              [] digits = <<"-", "1", ",", "5", "0">> -> Number(0 - 15, 1)
              [] digits = <<"U+0663">> -> Number(3, 0)

        \* the text t is split at a temperature
        Split(t) ==
            /\ Matches(t) # {}
            /\ needs_parse =>
                  \A q \in First(t)[1]..(First(t)[2] - 1) : t[q] # "U+0663"

        \* the items that replace the text t when the inline quantities are b
        ItemsOf(t, b) ==
            IF ~Split(t) THEN <<[kind |-> "Text", value |-> t]>>
            ELSE (IF First(t)[1] > 1
                  THEN <<[kind |-> "Text", value |-> SubSeq(t, 1, First(t)[1] - 1)]>>
                  ELSE <<>>)
                 \o <<[kind |-> "InlineQuantity", value |-> b]>>
                 \o (IF First(t)[3] < Len(t)
                     THEN <<[kind |-> "Text", value |-> SubSeq(t, First(t)[3] + 1, Len(t))]>>
                     ELSE <<>>)

        \* the inline quantity pushed for the text t
        PushedOf(t) ==
            IF ~Split(t) THEN <<>>
            ELSE <<[value |-> [k |-> "Fixed",
                               values |-> <<NumberOf(SubSeq(t, First(t)[1],
                                                            First(t)[2] - 1))>>],
                    unit |-> Some(t[First(t)[3]])]>>

        \* the items and the pushed quantities of a line of one or two texts
        LineItems(items, b) ==
            ItemsOf(items[1].text, b)
            \o (IF Len(items) = 2
                THEN ItemsOf(items[2].text, b + Len(PushedOf(items[1].text)))
                ELSE <<>>)
        LinePushed(items) ==
            PushedOf(items[1].text)
            \o (IF Len(items) = 2 THEN PushedOf(items[2].text) ELSE <<>>)

        \* the items a are the items b
        SameItems(a, b) ==
            /\ Len(a) = Len(b)
            /\ \A i \in 1..Len(a) : a[i].kind = b[i].kind /\ a[i].value = b[i].value
    IN
        /\ pc = "walk" /\ lines' = lines + 1 /\ line'.kind = "Step"
        /\ walker.temperature_regex /\ walker.define_mode # "Components"
        => /\ SameItems(Last(walker'.current_section.steps).items,
                        LineItems(line'.items, Len(walker.content.inline_quantities)))
           /\ walker'.content.inline_quantities =
                 walker.content.inline_quantities \o LinePushed(line'.items)
           /\ Len(walker'.current_section.steps) = Len(walker.current_section.steps) + 1

\* C11: with a temperature regex, a step text with a temperature match in it
\* is replaced by the text before the first match (left out when empty), one
\* InlineQuantity whose index is the length of inline_quantities before the
\* push, and the text after the match (left out when empty, not scanned
\* again); the pushed quantity is Fixed with the matched number and unit
\* symbol; a text without a match becomes exactly one Text item
C11_TemperatureSplit == [][C11_Step(FALSE)]_vars

\* the same for the texts whose first match has a number of ASCII digits,
\* every other text becoming exactly one Text item
C11_ParsedTemperatureSplit == [][C11_Step(TRUE)]_vars

\* a step whose text has text before a temperature and a second temperature
\* after it was walked after another temperature: three items, the second
\* quantity of the recipe, and the second temperature left in the text
C11_Witness ==
    /\ pc = "walk" /\ walker.temperature_regex /\ walker.define_mode # "Components"
    /\ line.kind = "Step"
    /\ line.items = <<TextItem(<<"a", " ", "1", " ", "C", " ", "b", " ", "2", "C">>)>>
    /\ Len(walker.content.inline_quantities) = 2
    /\ Len(Last(walker.current_section.steps).items) = 3
    /\ Last(walker.current_section.steps).items[1] =
          [kind |-> "Text", value |-> <<"a", " ">>]
    /\ Last(walker.current_section.steps).items[2] =
          [kind |-> "InlineQuantity", value |-> 1]
    /\ Last(walker.current_section.steps).items[3] =
          [kind |-> "Text", value |-> <<" ", "b", " ", "2", "C">>]
    /\ Last(walker.content.inline_quantities) =
          [value |-> [k |-> "Fixed", values |-> <<Number(1, 0)>>], unit |-> Some("C")]

(* ------------------ specification: the lines of the parser ------------ *)
MaxLinesSource == 3

\* the lines of tokens next_line hands out: an empty and a blank line, text
\* with blanks around it and a comment after it, a text step, an ingredient,
\* a metadata entry, a metadata marker without entry, and a section
SourceTokenLines ==
    LET CommentTokens ==
            <<Tok("ws", " "), Tok("word", "a"), Tok("ws", " "),
              Tok("line comment", "-- c")>>
        BlanksAroundTokens == <<Tok("ws", " "), Tok("word", "b"), Tok("ws", " ")>>
        TextStepTokens == <<Tok(">", ">"), Tok("ws", " "), Tok("word", "t")>>
        IngredientTokens == <<Tok("@", "@"), Tok("word", "salt")>>
        MetadataTokens ==
            <<Tok("meta", ">>"), Tok("ws", " "), Tok("word", "k"), Tok(":", ":"),
              Tok("ws", " "), Tok("word", "v")>>
        EmptyValueTokens == <<Tok("meta", ">>"), Tok("word", "k"), Tok(":", ":")>>
        NoEntryTokens == <<Tok("meta", ">>"), Tok("word", "k")>>
        SectionTokens == <<Tok("=", "="), Tok("word", "s")>>
    IN {<<>>, <<Tok("ws", " ")>>, CommentTokens, BlanksAroundTokens, TextStepTokens,
        IngredientTokens, MetadataTokens, EmptyValueTokens, NoEntryTokens,
        SectionTokens}

\* parse with and without MULTILINE_STEPS, and parse_metadata
InitSource ==
    /\ walker = parse_ast({}, TRUE, None)
    /\ lines = 0
    /\ line = NoLine
    /\ result = None
    /\ \E extensions \in SUBSET {MULTILINE_STEPS} : parser = Parser_new(extensions)
    /\ parsed = None
    /\ pc \in {"parse", "parse_metadata"}
    /\ pc = "parse_metadata" => parser.extensions = {}
    /\ QuantityIdle

NextSource ==
    \/ \E tokens \in SourceTokenLines :
          parser.consumed < MaxLinesSource /\ ParseLine(tokens)
    \/ \E tokens \in SourceTokenLines :
          parser.consumed < MaxLinesSource /\ ParseMetadataLine(tokens)
    \/ ParseFinish
    \/ Finish
SpecSource == InitSource /\ [][NextSource]_vars

\* a step of parse on a line that is a step: the line is joined to the
\* previously emitted line exactly when MULTILINE_STEPS is on, the previous
\* source line was not empty and the previously emitted line is a Step, and
\* with non_text_only only a Step that is not a text step
C12_Step(non_text_only) ==
    LET
        Blank(tokens) ==
            \A i \in 1..Len(tokens) :
                tokens[i].kind \in {"ws", "line comment", "block comment"}

        \* the line is neither blank, nor a metadata entry, nor a section
        IsStep(tokens) ==
            /\ ~Blank(tokens)
            /\ tokens[1].kind # "="
            /\ tokens[1].kind = "meta" => \A i \in 1..Len(tokens) : tokens[i].kind # ":"

        Joins(self, previous) ==
            /\ MULTILINE_STEPS \in self.extensions
            /\ previous.kind = "Tokens" /\ ~Blank(previous.tokens)
            /\ self.lines # <<>>
            /\ Last(self.lines).kind = "Step"
            /\ non_text_only => ~Last(self.lines).is_text
    IN
        pc = "parse" /\ parser'.consumed = parser.consumed + 1 /\ IsStep(line'.tokens)
        => IF Joins(parser, line)
           THEN Len(parser'.lines) = Len(parser.lines)
           ELSE /\ Len(parser'.lines) = Len(parser.lines) + 1
                /\ Last(parser'.lines).kind = "Step"
                /\ SubSeq(parser'.lines, 1, Len(parser.lines)) = parser.lines

\* C12: parse_line splices a step line onto the previously emitted AST line
\* only if MULTILINE_STEPS is enabled, the previous source line was non-empty
\* and the previously emitted line is a non-text Step; after an empty line, a
\* Metadata or Section line, a text step, or with the extension disabled the
\* line is emitted as a fresh Step line
C12_JoinOntoNonTextStep == [][C12_Step(TRUE)]_vars

\* C12 as the code has it: the line is spliced onto the previously emitted
\* line if and only if MULTILINE_STEPS is enabled, the previous source line
\* was non-empty and the previously emitted line is a Step, a text step
\* included; otherwise it is emitted as a fresh Step line
C12_JoinOntoStep == [][C12_Step(FALSE)]_vars

\* an ingredient line was joined to a text step, as text
C12_Witness ==
    /\ pc = "parse" /\ MULTILINE_STEPS \in parser.extensions
    /\ parser.consumed = 2 /\ Len(parser.lines) = 1
    /\ parser.lines[1].kind = "Step" /\ parser.lines[1].is_text
    /\ Len(parser.lines[1].items) = 3
    /\ parser.lines[1].items[3].kind = "Text"
    /\ line.tokens = <<Tok("@", "@"), Tok("word", "salt")>>

\* a step of parse that joins a step line to the previous step: the lines
\* before stay, and the items of the step are the items it had, with the end
\* of a last text trimmed, one text of a single space at the end of the last
\* item before the trimming, and the items of the new line, with the start
\* of a first text trimmed; with at_newline that end is the end of the
\* previous source line
C13_Step(at_newline) ==
    LET
        Blank(tokens) ==
            \A i \in 1..Len(tokens) :
                tokens[i].kind \in {"ws", "line comment", "block comment"}

        \* the line is neither blank, nor a metadata entry, nor a section
        IsStep(tokens) ==
            /\ ~Blank(tokens)
            /\ tokens[1].kind # "="
            /\ tokens[1].kind = "meta" => \A i \in 1..Len(tokens) : tokens[i].kind # ":"

        \* the text of the fragments fr, as one sequence
        FlatLen(fr, i) == sum_len([x \in 1..Len(fr) |-> Len(fr[x].text)], i)
        FragmentOf(fr, j) ==
            CHOOSE i \in 1..Len(fr) : FlatLen(fr, i - 1) < j /\ j <= FlatLen(fr, i)
        Flat(fr) ==
            [j \in 1..FlatLen(fr, Len(fr)) |->
                fr[FragmentOf(fr, j)].text[j - FlatLen(fr, FragmentOf(fr, j) - 1)]]

        \* b is a without the blanks at its end, or at its start
        TrimmedEnd(a, b) ==
            /\ Len(b) <= Len(a) /\ b = SubSeq(a, 1, Len(b))
            /\ \A q \in (Len(b) + 1)..Len(a) : a[q] = " "
            /\ b # <<>> => b[Len(b)] # " "
        TrimmedStart(a, b) ==
            /\ Len(b) <= Len(a) /\ b = SubSeq(a, Len(a) - Len(b) + 1, Len(a))
            /\ \A q \in 1..(Len(a) - Len(b)) : a[q] = " "
            /\ b # <<>> => b[1] # " "

        \* n is the items o with the last one trimmed at its end when it is a
        \* text, and removed when nothing is left of it
        KeepEnd(o, n) ==
            IF Last(o).kind # "Text" THEN n = o
            ELSE /\ Len(n) \in {Len(o) - 1, Len(o)}
                 /\ SubSeq(n, 1, Len(o) - 1) = SubSeq(o, 1, Len(o) - 1)
                 /\ IF Len(n) = Len(o)
                    THEN /\ n[Len(n)].kind = "Text"
                         /\ n[Len(n)].text.fragments # <<>>
                         /\ TrimmedEnd(Flat(Last(o).text.fragments),
                                       Flat(n[Len(n)].text.fragments))
                    ELSE TrimmedEnd(Flat(Last(o).text.fragments), <<>>)

        \* the same at the start of the first item
        KeepStart(o, n) ==
            IF o[1].kind # "Text" THEN n = o
            ELSE /\ Len(n) \in {Len(o) - 1, Len(o)}
                 /\ SubSeq(n, Len(n) - Len(o) + 2, Len(n)) = SubSeq(o, 2, Len(o))
                 /\ IF Len(n) = Len(o)
                    THEN /\ n[1].kind = "Text"
                         /\ n[1].text.fragments # <<>>
                         /\ TrimmedStart(Flat(o[1].text.fragments),
                                         Flat(n[1].text.fragments))
                    ELSE TrimmedStart(Flat(o[1].text.fragments), <<>>)

        \* the joined items: the old ones, the space at position k, the fresh ones
        Joined(old, fresh, joined, k, newline_pos) ==
            /\ joined[k].kind = "Text"
            /\ Len(joined[k].text.fragments) = 1
            /\ joined[k].text.fragments[1].text = <<" ">>
            /\ joined[k].text.offset = Item_span(Last(old))[2]
            /\ at_newline => joined[k].text.offset = newline_pos
            /\ KeepEnd(old, SubSeq(joined, 1, k - 1))
            /\ KeepStart(fresh, SubSeq(joined, k + 1, Len(joined)))

        \* the items of the new line when it is parsed as the join parses it
        Fresh(self, tokens) ==
            parser_step(LineParser_new(self.consumed + 1, self.offset, tokens,
                                       self.extensions),
                        Last(self.lines).is_text).items
    IN
        /\ pc = "parse" /\ parser'.consumed = parser.consumed + 1
        /\ IsStep(line'.tokens)
        /\ parser.lines # <<>> /\ Len(parser'.lines) = Len(parser.lines)
        => /\ SubSeq(parser'.lines, 1, Len(parser.lines) - 1) =
                 SubSeq(parser.lines, 1, Len(parser.lines) - 1)
           /\ Last(parser'.lines).kind = "Step"
           /\ Last(parser'.lines).is_text = Last(parser.lines).is_text
           /\ \E k \in 1..Len(Last(parser'.lines).items) :
                 Joined(Last(parser.lines).items, Fresh(parser, line'.tokens),
                        Last(parser'.lines).items, k, parser.offset - 1)

\* C13: when a step line is joined to the previous step the number of AST
\* lines does not grow, the last text item of the previous step loses only
\* trailing whitespace and the first text item of the new line only leading
\* whitespace (items left empty are removed), exactly one single-space Text
\* item is inserted between them, whose offset is the end position of the
\* last item of the previous step before trimming, the original end of the
\* line; all other items keep their content and order
C13_JoinKeepsItems == [][C13_Step(TRUE)]_vars

\* the same with the offset of the space at the end of the last item of the
\* previous step, wherever the line ended
C13_JoinKeepsItemsAtItemEnd == [][C13_Step(FALSE)]_vars

\* a line was joined to a step whose text ends in blanks and a comment, and
\* the space between them is where the text ended before the trimming, which
\* is not where the line ended
C13_Witness ==
    /\ pc = "parse" /\ parser.consumed = 2 /\ Len(parser.lines) = 1
    /\ parser.lines[1].kind = "Step"
    /\ Len(parser.lines[1].items) = 3
    /\ \A i \in 1..3 : parser.lines[1].items[i].kind = "Text"
    /\ parser.lines[1].items[1].text.fragments = <<[text |-> <<" ", "a">>, offset |-> 0]>>
    /\ parser.lines[1].items[2].text = Text_from_str(" ", 3)
    /\ parser.lines[1].items[3].text.fragments = <<[text |-> <<"b", " ">>, offset |-> 9]>>

\* a step of parse_metadata: a line that is a metadata entry adds one
\* Metadata line with the texts and the offsets of its key and value, any
\* other line adds nothing, no diagnostic is recorded, and the result is the
\* AST of the lines
C14_Step ==
    LET
        \* the place of the first colon of the tokens, 0 when there is none
        Colon(tokens) ==
            IF \E i \in 1..Len(tokens) : tokens[i].kind = ":"
            THEN CHOOSE i \in 1..Len(tokens) :
                     /\ tokens[i].kind = ":"
                     /\ \A j \in 1..(i - 1) : tokens[j].kind # ":"
            ELSE 0

        \* the line is a metadata entry: the marker, a key, a colon, a value
        IsEntry(tokens) ==
            tokens # <<>> /\ tokens[1].kind = "meta" /\ Colon(tokens) > 0

        \* the Text of the tokens from a to b of a line that has no comment in it
        TextOf(tokens, a, b, offset) ==
            [offset |-> offset,
             fragments |->
                IF a > b THEN <<>>
                ELSE <<[text |-> [i \in 1..(b - a + 1) |-> tokens[a + i - 1].str],
                        offset |-> offset]>>]

        \* the Metadata line of an entry whose line starts at base
        EntryOf(tokens, base) ==
            [kind |-> "Metadata",
             key |-> TextOf(tokens, 2, Colon(tokens) - 1, base + Len(tokens[1].str)),
             value |-> TextOf(tokens, Colon(tokens) + 1, Len(tokens),
                              base + tokens_len(SubSeq(tokens, 1, Colon(tokens))))]

        NoDiagnostics(self) == self.context = [errors |-> <<>>, warnings |-> <<>>]
    IN
        /\ pc = "parse_metadata" /\ pc' = "parse_metadata" =>
              /\ parser'.lines =
                    IF IsEntry(line'.tokens)
                    THEN Append(parser.lines, EntryOf(line'.tokens, parser.offset))
                    ELSE parser.lines
              /\ \A i \in 1..Len(parser'.lines) : parser'.lines[i].kind = "Metadata"
              /\ NoDiagnostics(parser')
        /\ pc = "parse_metadata" /\ pc' = "walk" =>
              parsed' = Some([value |-> Some([lines |-> parser.lines]),
                              errors |-> <<>>, warnings |-> <<>>])

NumberValue(x) == [t |-> "Number", value |-> x]
RangeValue(s, e) == [t |-> "Range", start |-> s, end |-> e]
\* QuantityValue::Fixed, Linear and ByServings
Fixed(v) == [k |-> "Fixed", values |-> <<v>>]
Linear(v) == [k |-> "Linear", values |-> <<v>>]
ByServings(vs) == [k |-> "ByServings", values |-> vs]
\* ConvertTo
ToUnit(key) == [to |-> "Unit", key |-> key, system |-> "-"]
ToBest(system) == [to |-> "Best", key |-> "-", system |-> system]
SameSystem == [to |-> "SameSystem", key |-> "-", system |-> "-"]

\* convert_f64 that takes both differences from the unit it converts from
convert_f64_from_difference(x, from, to) ==
    f64_sub(f64_div(f64_mul(f64_add(x, from.difference), from.ratio), to.ratio),
            from.difference)

\* convert_f64, the free function: both units are of one physical quantity
convert_f64(x, from, to) ==
    f64_sub(f64_div(f64_mul(f64_add(x, from.difference), from.ratio), to.ratio),
            to.difference)

\* Converter::convert: Ok(q) or Err(err), the ConvertError variant
convert(from, to) ==
    LET
        Failed(e) == [ok |-> FALSE, err |-> e, q |-> from]
        \* Converter::convert_f64: a unit converts to itself without arithmetic
        to_f64(x, u, target) ==
            IF u = target THEN x
            ELSE convert_f64(x, all_units[u], all_units[target])
        \* Converter::convert_value
        convert_value(v, u, target) ==
            IF v.t = "Number" THEN NumberValue(to_f64(v.value, u, target))
            ELSE RangeValue(to_f64(v.start, u, target), to_f64(v.end, u, target))
        \* BestConversions::best_unit: the last unit the threshold of which
        \* the value reaches, the first unit when there is none
        pick(list, hits) ==
            IF hits = {} THEN list[1].unit
            ELSE list[CHOOSE i \in hits : \A j \in hits : j <= i].unit
        best_unit(list, mag, u) ==
            IF list = <<>> THEN None
            ELSE Some(pick(list, {i \in 1..Len(list) :
                                    f64_ge(to_f64(mag, u, list[1].unit), list[i].th)}))
        \* Converter::convert_to_best
        to_best(v, u, bu) ==
            IF bu = None THEN [ok |-> FALSE, err |-> "BestUnitNotFound"]
            ELSE [ok |-> TRUE, value |-> convert_value(v, u, Unwrap(bu)),
                  unit |-> Unwrap(bu)]
        convert_to_best(v, u, system) ==
            to_best(v, u,
                best_unit(IF best[all_units[u].physical_quantity].store = "Unified"
                             \/ system = "Metric"
                          THEN best[all_units[u].physical_quantity].metric
                          ELSE best[all_units[u].physical_quantity].imperial,
                          f64_abs(IF v.t = "Number" THEN v.value ELSE v.start), u))
        \* the TryFrom of ConvertValue, then Converter::convert2 with
        \* convert_to_unit
        convert2(v, u) ==
            IF v.t = "Text" THEN [ok |-> FALSE, err |-> "TextValue"]
            ELSE IF to.to = "Unit"
            THEN IF ~get_unit(to.key).ok THEN [ok |-> FALSE, err |-> "UnknownUnit"]
                 ELSE IF all_units[u].physical_quantity
                           # all_units[to.key].physical_quantity
                 THEN [ok |-> FALSE, err |-> "MixedQuantities"]
                 ELSE [ok |-> TRUE, value |-> convert_value(v, u, to.key),
                       unit |-> to.key]
            ELSE IF to.to = "Best" THEN convert_to_best(v, u, to.system)
            ELSE convert_to_best(v, u,
                     IF all_units[u].system = <<>> THEN default_system
                     ELSE all_units[u].system[1])
        \* Converter::convert_ on the results of its values, the first error
        \* returns; the unit is the unit of the last value
        collect(rs) ==
            IF \E i \in 1..Len(rs) : ~rs[i].ok
            THEN Failed(rs[CHOOSE i \in 1..Len(rs) :
                             ~rs[i].ok /\ \A j \in 1..(i - 1) : rs[j].ok].err)
            ELSE [ok |-> TRUE, err |-> "-",
                  q |-> [value |-> [k |-> from.value.k,
                                    values |-> [i \in 1..Len(rs) |-> rs[i].value]],
                         unit |-> Some(rs[Len(rs)].unit)]]
    IN
        IF from.unit = None THEN Failed("NoUnit")
        ELSE IF unit_info_or_parse(Unwrap(from.unit)).info = "Unknown"
        THEN Failed("UnknownUnit")
        ELSE collect([i \in 1..Len(from.value.values) |->
                         convert2(from.value.values[i], Unwrap(from.unit))])

\* Value::try_add: Ok(value) or Err(TextValueError)
Value_try_add(a, b) ==
    IF a.t = "Text" \/ b.t = "Text" THEN [ok |-> FALSE, err |-> "TextValue"]
    ELSE IF a.t = "Number" /\ b.t = "Number"
    THEN [ok |-> TRUE, value |-> NumberValue(f64_add(a.value, b.value))]
    ELSE IF a.t = "Number"
    THEN [ok |-> TRUE, value |-> RangeValue(f64_add(b.start, a.value),
                                            f64_add(b.end, a.value))]
    ELSE IF b.t = "Number"
    THEN [ok |-> TRUE, value |-> RangeValue(f64_add(a.start, b.value),
                                            f64_add(a.end, b.value))]
    ELSE [ok |-> TRUE, value |-> RangeValue(f64_add(a.start, b.start),
                                            f64_add(a.end, b.end))]

\* QuantityValue::try_add with extract_value
QuantityValue_try_add(a, b) ==
    IF a.k # "Fixed" \/ b.k # "Fixed" THEN [ok |-> FALSE, err |-> "NotScaled"]
    ELSE Value_try_add(a.values[1], b.values[1])

\* Quantity::try_add: Ok(q) or Err(err), the QuantityAddError
Quantity_try_add(self, rhs) ==
    LET
        \* steps 3 and 4: the values are summed, the unit is the one of self
        sum(added) ==
            IF ~added.ok THEN [ok |-> FALSE, err |-> added.err, q |-> self]
            ELSE [ok |-> TRUE, err |-> "-",
                  q |-> [value |-> Fixed(added.value), unit |-> self.unit]]
        \* step 2: rhs in the common unit
        converted(c) ==
            IF ~c.ok THEN [ok |-> FALSE, err |-> c.err, q |-> self]
            ELSE sum(QuantityValue_try_add(self.value, c.q.value))
        \* step 1
        checked(convert_to) ==
            IF convert_to.err # "ok"
            THEN [ok |-> FALSE, err |-> convert_to.err, q |-> self]
            ELSE IF IsSome(convert_to.base)
            THEN converted(convert(rhs, ToUnit(Unwrap(convert_to.base))))
            ELSE sum(QuantityValue_try_add(self.value, rhs.value))
    IN
        checked(compatible_unit(self, rhs))

(* --------------------------- GroupedQuantity -------------------------- *)
\* GroupedQuantity::empty; unknown is the map of the unit texts
GroupedQuantity_empty ==
    [known |-> [pq \in {"Mass", "Temperature", "Time"} |-> None],
     unknown |-> [t \in {} |-> None],
     no_unit |-> None,
     other |-> <<>>]

\* GroupedQuantity::add that forgets a quantity it could not add to the
\* stored one
GroupedQuantity_add_forget(self, q) ==
    LET
        \* the arm Err of the macro add!
        push(g) == g
        \* the macro add! on the quantity stored without unit, for a known
        \* physical quantity and for an unknown unit text
        add_no_unit(r) ==
            IF r.ok THEN [self EXCEPT !.no_unit = Some(r.q)] ELSE push(self)
        add_known(pq, r) ==
            IF r.ok THEN [self EXCEPT !.known[pq] = Some(r.q)] ELSE push(self)
        add_unknown(text, r) ==
            IF r.ok THEN [self EXCEPT !.unknown[text] = r.q] ELSE push(self)
        with_unit(text, info) ==
            IF info.info = "Known"
            THEN IF IsSome(self.known[info.physical_quantity])
                 THEN add_known(info.physical_quantity,
                          Quantity_try_add(Unwrap(self.known[info.physical_quantity]), q))
                 ELSE [self EXCEPT !.known[info.physical_quantity] = Some(q)]
            ELSE IF text \in DOMAIN self.unknown
                 THEN add_unknown(text, Quantity_try_add(self.unknown[text], q))
                 ELSE [self EXCEPT !.unknown =
                          [t \in DOMAIN @ \cup {text} |->
                              IF t = text THEN q ELSE @[t]]]
    IN
        IF contains_text_value(q.value) THEN [self EXCEPT !.other = Append(@, q)]
        ELSE IF q.unit = None
        THEN IF IsSome(self.no_unit)
             THEN add_no_unit(Quantity_try_add(Unwrap(self.no_unit), q))
             ELSE [self EXCEPT !.no_unit = Some(q)]
        ELSE with_unit(Unwrap(q.unit), unit_info_or_parse(Unwrap(q.unit)))

\* GroupedQuantity::add
GroupedQuantity_add(self, q) ==
    LET
        \* the arm Err of the macro add!
        push(g) == [g EXCEPT !.other = Append(@, q)]
        \* the macro add! on the quantity stored without unit, for a known
        \* physical quantity and for an unknown unit text
        add_no_unit(r) ==
            IF r.ok THEN [self EXCEPT !.no_unit = Some(r.q)] ELSE push(self)
        add_known(pq, r) ==
            IF r.ok THEN [self EXCEPT !.known[pq] = Some(r.q)] ELSE push(self)
        add_unknown(text, r) ==
            IF r.ok THEN [self EXCEPT !.unknown[text] = r.q] ELSE push(self)
        with_unit(text, info) ==
            IF info.info = "Known"
            THEN IF IsSome(self.known[info.physical_quantity])
                 THEN add_known(info.physical_quantity,
                          Quantity_try_add(Unwrap(self.known[info.physical_quantity]), q))
                 ELSE [self EXCEPT !.known[info.physical_quantity] = Some(q)]
            ELSE IF text \in DOMAIN self.unknown
                 THEN add_unknown(text, Quantity_try_add(self.unknown[text], q))
                 ELSE [self EXCEPT !.unknown =
                          [t \in DOMAIN @ \cup {text} |->
                              IF t = text THEN q ELSE @[t]]]
    IN
        IF contains_text_value(q.value) THEN [self EXCEPT !.other = Append(@, q)]
        ELSE IF q.unit = None
        THEN IF IsSome(self.no_unit)
             THEN add_no_unit(Quantity_try_add(Unwrap(self.no_unit), q))
             ELSE [self EXCEPT !.no_unit = Some(q)]
        ELSE with_unit(Unwrap(q.unit), unit_info_or_parse(Unwrap(q.unit)))

\* GroupedQuantity::all_quantities: the known quantities, the unknown ones
\* in the order the HashMap yields them (any order of its keys), the
\* uncombinable ones, then the one without unit
all_quantities(self, order) ==
    LET known(pq) == self.known[pq]
    IN known("Mass") \o known("Temperature") \o known("Time")
         \o [i \in 1..Len(order) |-> self.unknown[order[i]]]
         \o self.other \o self.no_unit

\* GroupedQuantity::total
total(self, order) ==
    LET of(held) ==
            IF held = <<>> THEN [k |-> "None", qs |-> <<>>]
            ELSE IF Len(held) = 1 THEN [k |-> "Single", qs |-> held]
            ELSE [k |-> "Many", qs |-> held]
    IN of(all_quantities(self, order))

(* ------------------------------- Recipe ------------------------------- *)
\* Recipe::convert that leaves the quantities as they are and returns the
\* errors
Recipe_convert_errors_only(self, to) ==
    LET conv(q) == convert(q, ToBest(to))
        failed(r) == ~r.ok
        results(qs) == [i \in 1..Len(qs) |-> conv(qs[i])]
        errors_of(qs) ==
            [i \in 1..Len(SelectSeq(results(qs), failed)) |->
                SelectSeq(results(qs), failed)[i].err]
        has_quantity(c) == c.quantity # None
        quantities(cs) ==
            [i \in 1..Len(SelectSeq(cs, has_quantity)) |->
                Unwrap(SelectSeq(cs, has_quantity)[i].quantity)]
    IN  [recipe |-> self,
         errors |-> errors_of(quantities(self.ingredients))
                       \o errors_of(quantities(self.timers))
                       \o errors_of(self.inline_quantities)]

\* Recipe::convert: the recipe after the call and the errors returned
Recipe_convert(self, to) ==
    LET \* the closure conv: the quantity after the call
        conv(q) == IF convert(q, ToBest(to)).ok THEN convert(q, ToBest(to)).q ELSE q
        failed(q) == ~convert(q, ToBest(to)).ok
        errors_of(qs) ==
            [i \in 1..Len(SelectSeq(qs, failed)) |->
                convert(SelectSeq(qs, failed)[i], ToBest(to)).err]
        has_quantity(c) == c.quantity # None
        quantities(cs) ==
            [i \in 1..Len(SelectSeq(cs, has_quantity)) |->
                Unwrap(SelectSeq(cs, has_quantity)[i].quantity)]
        converted(cs) ==
            [i \in 1..Len(cs) |->
                IF cs[i].quantity = None THEN cs[i]
                ELSE [cs[i] EXCEPT !.quantity = Some(conv(Unwrap(@)))]]
    IN  [recipe |-> [self EXCEPT !.ingredients = converted(@),
                                 !.timers = converted(@),
                                 !.inline_quantities =
                                     [i \in 1..Len(@) |-> conv(@[i])]],
         errors |-> errors_of(quantities(self.ingredients))
                       \o errors_of(quantities(self.timers))
                       \o errors_of(self.inline_quantities)]

(* ---------------- specification: quantity operations ------------------ *)
\* the quantities handed to the operations: numbers, a range, a text, a
\* scalable value and a value by servings, without unit, with known units of
\* three physical quantities and with unknown units, one of them stored
\* with its trailing space
QuantityValues ==
    {Fixed(NumberValue(f64(1, 1))), Fixed(NumberValue(f64(3, 2))),
     Fixed(RangeValue(f64(1, 1), f64(2, 1))), Fixed(Text(1)),
     Linear(NumberValue(f64(1, 1))),
     ByServings(<<NumberValue(f64(1, 1)), NumberValue(f64(2000, 1))>>)}
QuantityUnits ==
    {None, Some("g"), Some("kg"), Some("lb"), Some("C"), Some("K"), Some("min"),
     Some("cup"), Some("cup "), Some("tsp")}
Quantities == {Quantity_new(v, u) : v \in QuantityValues, u \in QuantityUnits}
ConvertTargets ==
    {ToUnit(Unwrap(u)) : u \in QuantityUnits \ {None}}
        \cup {ToBest("Metric"), ToBest("Imperial"), SameSystem}

\* a call of Quantity::compatible_unit, the one call of the run
CompatibleUnit(a, b) ==
    /\ pc = "quantity"
    /\ call = None
    /\ call' = Some([op |-> "compatible_unit", a |-> a, b |-> b,
                     out |-> compatible_unit(a, b)])
    /\ UNCHANGED <<walker, lines, line, result, parser, parsed, pc,
                   grouped, recipe, cell, callers>>

\* a call of Quantity::try_add
TryAdd(a, b) ==
    /\ pc = "quantity"
    /\ call = None
    /\ call' = Some([op |-> "try_add", a |-> a, b |-> b,
                     out |-> Quantity_try_add(a, b)])
    /\ UNCHANGED <<walker, lines, line, result, parser, parsed, pc,
                   grouped, recipe, cell, callers>>

\* a call of Converter::convert
Convert(q, to) ==
    /\ pc = "quantity"
    /\ call = None
    /\ call' = Some([op |-> "convert", a |-> q, b |-> to, out |-> convert(q, to)])
    /\ UNCHANGED <<walker, lines, line, result, parser, parsed, pc,
                   grouped, recipe, cell, callers>>

\* quantities added to the group
MaxAdds == 3
GroupedQuantities ==
    {Quantity_new(Fixed(NumberValue(f64(1, 1))), Some("g")),
     Quantity_new(Fixed(NumberValue(f64(3, 2))), Some("kg")),
     Quantity_new(Linear(NumberValue(f64(1, 1))), Some("g")),
     Quantity_new(Fixed(Text(1)), Some("g")),
     Quantity_new(Fixed(NumberValue(f64(1, 1))), Some("min")),
     Quantity_new(Fixed(NumberValue(f64(1, 1))), None),
     Quantity_new(Fixed(RangeValue(f64(1, 1), f64(2, 1))), None),
     Quantity_new(Fixed(NumberValue(f64(1, 1))), Some("cup")),
     Quantity_new(Fixed(NumberValue(f64(3, 2))), Some("cup")),
     Quantity_new(Fixed(NumberValue(f64(1, 1))), Some("tsp"))}

\* the orders a HashMap may yield the keys of the map in
KeyOrders(map) ==
    {order \in [1..Cardinality(DOMAIN map) -> DOMAIN map] :
        \A i, j \in DOMAIN order : i # j => order[i] # order[j]}

\* a call of GroupedQuantity::add; added lists the quantities added so far
GroupedAdd(q) ==
    /\ pc = "grouped"
    /\ grouped' = [group |-> GroupedQuantity_add(grouped.group, q),
                   added |-> Append(grouped.added, q),
                   total |-> None]
    /\ UNCHANGED <<walker, lines, line, result, parser, parsed, pc,
                   call, recipe, cell, callers>>

\* a call of GroupedQuantity::total
GroupedTotal(order) ==
    /\ pc = "grouped"
    /\ grouped.total = None
    /\ grouped' = [grouped EXCEPT !.total = Some(total(grouped.group, order))]
    /\ UNCHANGED <<walker, lines, line, result, parser, parsed, pc,
                   call, recipe, cell, callers>>

\* the recipes handed to Recipe::convert: up to MaxIngredients ingredients
\* without quantity or with a quantity that converts or fails in one of the
\* three ways, a timer, an inline temperature and a cookware item
MaxIngredients == 2
RecipeQuantities ==
    {Quantity_new(Fixed(NumberValue(f64(1500, 1))), Some("g")),
     Quantity_new(Fixed(NumberValue(f64(1, 1))), Some("cup")),
     Quantity_new(Fixed(NumberValue(f64(1, 1))), None),
     Quantity_new(Fixed(Text(1)), Some("g")),
     Quantity_new(Linear(RangeValue(f64(1, 1), f64(2, 1))), Some("lb"))}
Recipes ==
    LET Component(name, q) == [name |-> name, quantity |-> q]
        Lists(n) ==
            UNION {[1..k -> {Component("salt", q) :
                               q \in {None} \cup {Some(r) : r \in RecipeQuantities}}]
                      : k \in 0..n}
    IN  [ingredients : Lists(MaxIngredients),
         cookware : {<<>>, <<Component("pan", Some(Fixed(NumberValue(f64(1, 1)))))>>},
         timers : {<<>>, <<Component("", None)>>,
                   <<Component("", Some(Quantity_new(Fixed(NumberValue(f64(90, 1))),
                                                     Some("min"))))>>,
                   <<Component("", Some(Quantity_new(Fixed(Text(1)), Some("min"))))>>},
         inline_quantities : {<<>>, <<Quantity_new(Fixed(NumberValue(f64(180, 1))),
                                                   Some("C"))>>}]

\* a call of Recipe::convert, the one call of the run
RecipeConvert(to) ==
    /\ pc = "recipe"
    /\ recipe.returned = None
    /\ recipe' = [content |-> Recipe_convert(recipe.content, to).recipe,
                  returned |-> Some(Recipe_convert(recipe.content, to).errors)]
    /\ UNCHANGED <<walker, lines, line, result, parser, parsed, pc,
                   call, grouped, cell, callers>>

\* the quantity functions are called on fresh operands, a group starts
\* empty, a recipe is converted once
InitQuantity ==
    /\ walker = parse_ast({}, TRUE, None)
    /\ lines = 0
    /\ line = NoLine
    /\ result = None
    /\ parser = Parser_new({})
    /\ parsed = None
    /\ pc \in {"quantity", "grouped", "recipe"}
    /\ call = None
    /\ grouped = [group |-> GroupedQuantity_empty, added |-> <<>>, total |-> None]
    /\ \E content \in Recipes :
          recipe = IF pc = "recipe" THEN [content |-> content, returned |-> None]
                   ELSE None
    /\ cell = None
    /\ callers = <<>>

NextQuantity ==
    \/ \E a \in Quantities, b \in Quantities : CompatibleUnit(a, b)
    \/ \E a \in Quantities, b \in Quantities : TryAdd(a, b)
    \/ \E q \in Quantities, to \in ConvertTargets : Convert(q, to)
    \/ \E q \in GroupedQuantities :
          Len(grouped.added) < MaxAdds /\ GroupedAdd(q)
    \/ \E order \in KeyOrders(grouped.group.unknown) : GroupedTotal(order)
    \/ \E to \in {"Metric", "Imperial"} : RecipeConvert(to)
SpecQuantity == InitQuantity /\ [][NextQuantity]_vars

\* what compatible_unit returns for the units of the call, the texts of two
\* units compared after trimming or as they are stored
C17_Returns(trimmed) ==
    LET Known(q) ==
            q.unit # None /\ unit_info_or_parse(Unwrap(q.unit)).info = "Known"
        PhysicalQuantity(q) == unit_info_or_parse(Unwrap(q.unit)).physical_quantity
        SameText(a, b) ==
            IF trimmed THEN text_trimmed(Unwrap(a.unit)) = text_trimmed(Unwrap(b.unit))
            ELSE Unwrap(a.unit) = Unwrap(b.unit)
        Expected(a, b) ==
            IF a.unit = None /\ b.unit = None THEN [err |-> "ok", base |-> None]
            ELSE IF a.unit = None \/ b.unit = None
            THEN [err |-> "MissingUnit", base |-> None]
            ELSE IF Known(a) /\ Known(b)
            THEN IF PhysicalQuantity(a) = PhysicalQuantity(b)
                 THEN [err |-> "ok", base |-> a.unit]
                 ELSE [err |-> "DifferentPhysicalQuantities", base |-> None]
            ELSE IF SameText(a, b) THEN [err |-> "ok", base |-> None]
            ELSE [err |-> "UnknownDifferentUnits", base |-> None]
        Holds(c) ==
            c.op = "compatible_unit" =>
                /\ Known(c.a) /\ Known(c.b) /\ c.out.err = "ok" =>
                      /\ c.out.base # None
                      /\ get_unit(Unwrap(c.out.base)) = get_unit(Unwrap(c.a.unit))
                /\ c.out = Expected(c.a, c.b)
                /\ (c.out.err = "ok") <=> (compatible_unit(c.b, c.a).err = "ok")
    IN call # None => Holds(Unwrap(call))

\* C17 as stated: compatible_unit(a, b) is Ok(None) for two quantities
\* without unit, MissingUnit when one has a unit, Ok(a's unit) or
\* DifferentPhysicalQuantities for two known units, and Ok(None) for unknown
\* units exactly when their trimmed texts are identical; Ok or error does
\* not depend on the order of a and b
C17_TrimmedTexts == C17_Returns(TRUE)

\* C17 with the texts as they are: whenever a unit is unknown the result is
\* Ok(None) exactly when the two stored unit texts are identical, an
\* UnknownDifferentUnits error otherwise; the other cases and the
\* independence of the order are as stated
C17_StoredTexts == C17_Returns(FALSE)

\* compatible_unit was called on two unknown units of one text
C17_Witness ==
    /\ call # None
    /\ Unwrap(call).op = "compatible_unit"
    /\ Unwrap(call).a.unit = Some("cup ")
    /\ Unwrap(call).b.unit = Some("cup ")
    /\ Unwrap(call).out = [err |-> "ok", base |-> None]

\* try_add on the operands of the call and on the swapped operands; with
\* any_difference the units may have differences, without it the two units
\* have one difference
C15_Step(any_difference) ==
    LET FixedNumber(q) == q.value.k = "Fixed" /\ q.value.values[1].t # "Text"
        Difference(q) ==
            IF q.unit # None /\ get_unit(Unwrap(q.unit)).ok
            THEN all_units[Unwrap(q.unit)].difference ELSE f64(0, 1)
        \* the value of q in the unit of the quantity like
        ValueIn(q, like) ==
            IF compatible_unit(like, q).base = None THEN q.value
            ELSE convert(q, ToUnit(Unwrap(like.unit))).q.value
        Commutes(a, b, ab, ba) ==
            /\ ab.ok <=> ba.ok
            /\ FixedNumber(a) /\ FixedNumber(b) /\ compatible_unit(a, b).err = "ok"
               /\ (any_difference \/ Difference(a) = Difference(b)) =>
                  /\ ab.ok /\ ba.ok
                  /\ ab.q.unit = a.unit /\ ba.q.unit = b.unit
                  /\ ValueIn(ba.q, a) = ab.q.value
                  /\ a.unit = b.unit => ab.q = ba.q
    IN  call # None /\ Unwrap(call).op = "try_add" =>
            Commutes(Unwrap(call).a, Unwrap(call).b, Unwrap(call).out,
                     Quantity_try_add(Unwrap(call).b, Unwrap(call).a))

\* C15 as stated: for Fixed non-text quantities a and b of compatible units
\* try_add(a, b) and try_add(b, a) both succeed, each keeps the unit of its
\* left operand, the two values are equal once expressed in one unit and
\* the results are equal for equal units; one fails exactly when the other
\* fails
C15_TryAddCommutes == C15_Step(TRUE)

\* C15 for units of one difference (units without difference, equal units,
\* unknown units and no units)
C15_TryAddCommutesSameDifference == C15_Step(FALSE)

\* a kilogram was added to a gram
C15_Witness ==
    /\ call # None
    /\ Unwrap(call).op = "try_add"
    /\ Unwrap(call).a = Quantity_new(Fixed(NumberValue(f64(1, 1))), Some("g"))
    /\ Unwrap(call).b = Quantity_new(Fixed(NumberValue(f64(3, 2))), Some("kg"))
    /\ Unwrap(call).out.ok
    /\ Unwrap(call).out.q = Quantity_new(Fixed(NumberValue(f64(1501, 1))), Some("g"))

C18_Step ==
    LET Known(q) == unit_info_or_parse(Unwrap(q.unit)).info = "Known"
        Key(q) ==
            IF q.unit = None THEN [kind |-> "no_unit", name |-> "-"]
            ELSE IF Known(q)
            THEN [kind |-> "known",
                  name |-> unit_info_or_parse(Unwrap(q.unit)).physical_quantity]
            ELSE [kind |-> "unknown", name |-> Unwrap(q.unit)]
        Keys(g) ==
            {[kind |-> "no_unit", name |-> "-"]}
                \cup {[kind |-> "known", name |-> pq] : pq \in DOMAIN g.known}
                \cup {[kind |-> "unknown", name |-> t] : t \in DOMAIN g.unknown}
        Slot(g, key) ==
            IF key.kind = "no_unit" THEN g.no_unit
            ELSE IF key.kind = "known" THEN g.known[key.name]
            ELSE IF key.name \in DOMAIN g.unknown THEN Some(g.unknown[key.name])
            ELSE None
        Held(g) == Cardinality({key \in Keys(g) : Slot(g, key) # None}) + Len(g.other)
        \* the amount of a number of a known unit without difference, in the
        \* base unit
        Plain(q) ==
            /\ q.unit # None /\ Known(q) /\ q.value.k = "Fixed"
            /\ q.value.values[1].t = "Number"
            /\ all_units[Unwrap(q.unit)].difference = f64(0, 1)
        Amount(q) == f64_mul(q.value.values[1].value, all_units[Unwrap(q.unit)].ratio)
        Summed(stored, q, new) ==
            /\ Quantity_try_add(stored, q).ok
            /\ new = Quantity_try_add(stored, q).q
            /\ new.unit = stored.unit
            /\ Plain(stored) /\ Plain(q) =>
                  Plain(new) /\ Amount(new) = f64_add(Amount(stored), Amount(q))
        Kept(g, h, q) ==
            /\ h.other = Append(g.other, q)
            /\ \A key \in Keys(g) \cup Keys(h) : Slot(h, key) = Slot(g, key)
        Stored(g, h, q) ==
            /\ h.other = g.other
            /\ ~contains_text_value(q.value)
            /\ Slot(h, Key(q)) # None
            /\ IF Slot(g, Key(q)) = None THEN Slot(h, Key(q)) = Some(q)
               ELSE Summed(Unwrap(Slot(g, Key(q))), q, Unwrap(Slot(h, Key(q))))
            /\ \A key \in (Keys(g) \cup Keys(h)) \ {Key(q)} :
                  Slot(h, key) = Slot(g, key)
        SameQuantities(qs, g) ==
            /\ Len(qs) = Held(g)
            /\ \A key \in Keys(g) :
                  Slot(g, key) # None =>
                      Cardinality({i \in 1..Len(qs) : qs[i] = Unwrap(Slot(g, key))})
                         >= 1
            /\ \A i \in 1..Len(g.other) : \E j \in 1..Len(qs) : qs[j] = g.other[i]
        Total(g, t) ==
            /\ t.k = "None" <=> Held(g) = 0
            /\ t.k = "Single" <=> Held(g) = 1
            /\ t.k = "Many" <=> Held(g) > 1
            /\ SameQuantities(t.qs, g)
        Add(g, h, q) ==
            /\ Kept(g, h, q) \/ Stored(g, h, q)
            /\ Held(h) = Held(g) + 1 \/ (Held(h) = Held(g) /\ Slot(g, Key(q)) # None)
    IN  pc = "grouped" =>
            /\ Len(grouped'.added) > Len(grouped.added) =>
                  Add(grouped.group, grouped'.group, Last(grouped'.added))
            /\ grouped'.total # None =>
                  /\ grouped'.group = grouped.group
                  /\ Total(grouped'.group, Unwrap(grouped'.total))

\* C18: every quantity added to a GroupedQuantity is summed into its bucket
\* (a known physical quantity, an unknown unit text, no unit) in the unit of
\* the quantity stored first, or kept in the uncombinable list, none is
\* lost; total is None when nothing is held, Single for one quantity held
\* and Many otherwise
C18_NoneLost == [][C18_Step]_vars

\* 1 g, then 1.5 kg and a cup were added and total returned the two
\* quantities held
C18_Witness ==
    /\ pc = "grouped"
    /\ grouped.added = <<Quantity_new(Fixed(NumberValue(f64(1, 1))), Some("g")),
                         Quantity_new(Fixed(NumberValue(f64(3, 2))), Some("kg")),
                         Quantity_new(Fixed(NumberValue(f64(1, 1))), Some("cup"))>>
    /\ grouped.total
          = Some([k |-> "Many",
                  qs |-> <<Quantity_new(Fixed(NumberValue(f64(1501, 1))), Some("g")),
                           Quantity_new(Fixed(NumberValue(f64(1, 1))), Some("cup"))>>])

\* one call of Recipe::convert: each quantity of an ingredient, of a timer
\* and of the inline quantities is its conversion to the system or, when
\* that fails, itself, with one error returned for each failure
C19_Step ==
    LET Convertible(q, to) == convert(q, ToBest(to)).ok
        \* the quantities of the lists, in the order convert visits them
        Has(c) == c.quantity # None
        Of(cs) == [i \in 1..Len(SelectSeq(cs, Has)) |->
                      Unwrap(SelectSeq(cs, Has)[i].quantity)]
        Visited(r) == Of(r.ingredients) \o Of(r.timers) \o r.inline_quantities
        Converted(old, new, to) ==
            /\ Len(new) = Len(old)
            /\ \A i \in 1..Len(old) :
                  IF Convertible(old[i], to)
                  THEN new[i] = convert(old[i], ToBest(to)).q
                  ELSE new[i] = old[i]
        Names(cs) == [i \in 1..Len(cs) |-> <<cs[i].name, cs[i].quantity = None>>]
        Holds(before, after, errors, to) ==
            /\ Converted(Visited(before), Visited(after), to)
            /\ Len(errors)
                  = Cardinality({i \in 1..Len(Visited(before)) :
                                    ~Convertible(Visited(before)[i], to)})
            /\ \A i \in 1..Len(errors) :
                  errors[i] \in {"NoUnit", "UnknownUnit", "TextValue", "BestUnitNotFound"}
            /\ after.cookware = before.cookware
            /\ Names(after.ingredients) = Names(before.ingredients)
            /\ Names(after.timers) = Names(before.timers)
            /\ Len(after.inline_quantities) = Len(before.inline_quantities)
    IN  pc = "recipe" /\ recipe.returned = None /\ recipe'.returned # None =>
            \E to \in {"Metric", "Imperial"} :
                Holds(recipe.content, recipe'.content, Unwrap(recipe'.returned), to)

\* C19: Recipe::convert replaces the quantity of each ingredient, timer and
\* inline quantity by its conversion when that succeeds, leaves it unchanged
\* and returns one error for it when it fails, and never modifies cookware
C19_RecipeConvert == [][C19_Step]_vars

\* a recipe of a convertible and an unknown-unit ingredient, a timer, an
\* inline temperature and a cookware item was converted with one error
C19_Witness ==
    /\ pc = "recipe"
    /\ recipe.returned = Some(<<"UnknownUnit">>)
    /\ Len(recipe.content.ingredients) = 2
    /\ recipe.content.ingredients[1].quantity
          = Some(Quantity_new(Fixed(NumberValue(f64(3, 2))), Some("kg")))
    /\ recipe.content.ingredients[2].quantity
          = Some(Quantity_new(Fixed(NumberValue(f64(1, 1))), Some("cup")))
    /\ recipe.content.timers # <<>>
    /\ recipe.content.timers[1].quantity
          = Some(Quantity_new(Fixed(NumberValue(f64(90, 1))), Some("min")))
    /\ recipe.content.cookware # <<>>
    /\ recipe.content.inline_quantities # <<>>

(* ---------------- specification: one-time initialisation -------------- *)
\* threads that share the cell and calls each of them makes
MaxCallers == 2
MaxCalls == 2

\* OnceCell::new and OnceCell::from; evaluations counts the runs of the
\* initialiser, compiles tells if the regex of the converter builds
OnceCell_new(owner, compiles) ==
    [owner |-> owner, state |-> "INCOMPLETE", value |-> None, evaluations |-> 0,
     compiles |-> compiles]
OnceCell_from(owner, v) ==
    [owner |-> owner, state |-> "COMPLETE", value |-> Some(v), evaluations |-> 0,
     compiles |-> TRUE]

\* the closures handed to the cell: UnitInfo::new on the text "kg" with the
\* converter of the caller, and the build of the temperature regex
initialiser(c, converter) ==
    IF c.owner = "QuantityUnit"
    THEN [ok |-> TRUE,
          v |-> IF converter = "empty"
                THEN [info |-> "Unknown", physical_quantity |-> "-", symbol |-> "-"]
                ELSE unit_info_or_parse("kg")]
    ELSE IF c.compiles THEN [ok |-> TRUE, v |-> "Regex"]
    ELSE [ok |-> FALSE, v |-> "regex::Error"]

\* the call returns r to the caller t
returned(t, r) ==
    [callers EXCEPT ![t] = [pc |-> "idle", converter |-> "-",
                            seen |-> Append(@.seen, r)]]

\* unit_info_or_parse / temperature_regex, the entry of get_or_init and of
\* get_or_try_init: a value that is set is returned
Call(t, converter) ==
    /\ pc = "cells"
    /\ callers[t].pc = "idle"
    /\ Len(callers[t].seen) < MaxCalls
    /\ callers' = IF cell.value # None
                  THEN returned(t, [ok |-> TRUE, v |-> Unwrap(cell.value)])
                  ELSE [callers EXCEPT ![t] = [@ EXCEPT !.pc = "initialize",
                                                       !.converter = converter]]
    /\ UNCHANGED <<walker, lines, line, result, parser, parsed, pc,
                   call, grouped, recipe, cell>>

\* OnceCell::initialize: the caller waits while another one runs its
\* initialiser, returns the value of a complete cell and takes an
\* incomplete cell to run its own initialiser
Enter(t) ==
    /\ pc = "cells"
    /\ callers[t].pc = "initialize"
    /\ cell.state # "RUNNING"
    /\ IF cell.state = "COMPLETE"
       THEN /\ callers' = returned(t, [ok |-> TRUE, v |-> Unwrap(cell.value)])
            /\ cell' = cell
       ELSE /\ callers' = [callers EXCEPT ![t].pc = "running"]
            /\ cell' = [cell EXCEPT !.state = "RUNNING"]
    /\ UNCHANGED <<walker, lines, line, result, parser, parsed, pc,
                   call, grouped, recipe>>

\* the initialiser that stores its error in the cell
Initialize_keep_error(t) ==
    /\ pc = "cells"
    /\ callers[t].pc = "running"
    /\ cell' = [cell EXCEPT !.evaluations = @ + 1,
                            !.state = "COMPLETE",
                            !.value = Some(initialiser(cell, callers[t].converter).v)]
    /\ callers' = returned(t, initialiser(cell, callers[t].converter))
    /\ UNCHANGED <<walker, lines, line, result, parser, parsed, pc,
                   call, grouped, recipe>>

\* the caller that took the cell runs the initialiser: Ok sets the value
\* and completes the cell, Err leaves the cell incomplete; the result is
\* returned to the caller
Initialize(t) ==
    /\ pc = "cells"
    /\ callers[t].pc = "running"
    /\ cell' = IF initialiser(cell, callers[t].converter).ok
               THEN [cell EXCEPT !.evaluations = @ + 1,
                                 !.state = "COMPLETE",
                                 !.value = Some(initialiser(cell, callers[t].converter).v)]
               ELSE [cell EXCEPT !.evaluations = @ + 1, !.state = "INCOMPLETE"]
    /\ callers' = returned(t, initialiser(cell, callers[t].converter))
    /\ UNCHANGED <<walker, lines, line, result, parser, parsed, pc,
                   call, grouped, recipe>>

\* a unit from Quantity::new or with its info set by with_known_unit, or a
\* converter with a regex that builds or fails to build
InitCells ==
    /\ walker = parse_ast({}, TRUE, None)
    /\ lines = 0
    /\ line = NoLine
    /\ result = None
    /\ parser = Parser_new({})
    /\ parsed = None
    /\ pc = "cells"
    /\ call = None
    /\ grouped = None
    /\ recipe = None
    /\ cell \in {OnceCell_new("QuantityUnit", TRUE),
                 OnceCell_from("QuantityUnit", unit_info_or_parse("kg")),
                 OnceCell_new("Converter", TRUE), OnceCell_new("Converter", FALSE)}
    /\ callers = [t \in 1..MaxCallers |->
                     [pc |-> "idle", converter |-> "-", seen |-> <<>>]]

NextCells ==
    \/ \E t \in 1..MaxCallers, converter \in {"registry", "empty"} : Call(t, converter)
    \/ \E t \in 1..MaxCallers : Enter(t)
    \/ \E t \in 1..MaxCallers : Initialize(t)
SpecCells == InitCells /\ [][NextCells]_vars

\* one step of the callers of a cell: a value that is set stays, all the
\* results returned so far are one result, and the initialiser ran once at
\* most; with failures_retry an initialiser that fails runs once for each
\* error it returned
C20_Step(failures_retry) ==
    LET Seen(cs) == UNION {{cs[t].seen[i] : i \in 1..Len(cs[t].seen)} :
                              t \in 1..MaxCallers}
        Errors(cs) ==
            Cardinality({<<t, i>> \in (1..MaxCallers) \X (1..MaxCalls) :
                            i <= Len(cs[t].seen) /\ ~cs[t].seen[i].ok})
    IN  pc = "cells" =>
            /\ cell.value # None => cell'.value = cell.value
            /\ Cardinality(Seen(callers')) <= 1
            /\ \A r \in Seen(callers') : r.ok => cell'.value = Some(r.v)
            /\ IF failures_retry /\ cell'.value = None
               THEN cell'.evaluations = Errors(callers')
               ELSE cell'.evaluations <= 1

\* C20 as stated: for every interleaving of the callers of
\* unit_info_or_parse on one unit and of temperature_regex on one converter
\* the initialiser is evaluated a single time, every caller observes the
\* same result and a cached value never changes
C20_SingleEvaluation == [][C20_Step(FALSE)]_vars

\* C20 for initialisers that succeed: the initialiser of a cell that got
\* its value ran a single time; a temperature regex that fails to build is
\* not cached, it is built again by every call and every call returns the
\* error
C20_SingleSuccessfulEvaluation == [][C20_Step(TRUE)]_vars

\* every caller asked for the info of one unit, the initialiser ran once,
\* with the empty converter, and every caller got its result
C20_Witness ==
    /\ pc = "cells"
    /\ cell.owner = "QuantityUnit"
    /\ cell.evaluations = 1
    /\ cell.value = Some([info |-> "Unknown", physical_quantity |-> "-", symbol |-> "-"])
    /\ \A t \in 1..MaxCallers :
          /\ Len(callers[t].seen) >= 1
          /\ callers[t].seen[1].v
                = [info |-> "Unknown", physical_quantity |-> "-", symbol |-> "-"]

(* ---------------- specification: reference resolution ----------------- *)
MaxLinesResolve == 3

\* ingredients and cookware of one name with the modifiers the resolver
\* looks at, with and without the parts a reference may not have, and
\* ingredients that refer to the first step of the section
ResolveComponents ==
    LET
        \* one unit-less quantity
        OneQuantity == AstQuantity(Single(Number(1, 0), FALSE), None)
        FirstStep == Some(IntermediateData("Step", "Index", 0))
    IN
        {AstIngredient(m, "salt", None, None, None) :
            m \in {{}, {"REF"}, {"NEW"}, {"NEW", "REF"}, {"OPT"}, {"REF", "OPT"},
                   {"RECIPE"}}}
        \cup {AstIngredient(m, "Salt ", None, None, None) : m \in {{}, {"REF"}}}
        \cup {AstIngredient(m, "salt", None, Some("n"), None) : m \in {{}, {"REF"}}}
        \cup {AstIngredient(m, "salt", None, None, FirstStep) :
                 m \in {{}, {"REF"}, {"REF", "HIDDEN"}}}
        \cup {AstCookware(m, "pan", None, None) : m \in {{"OPT"}, {"RECIPE"}}}
        \cup {AstCookware(m, "pan", q, n) :
                 m \in {{}, {"REF"}},
                 q \in {None, Some(Single(Number(1, 0), FALSE))},
                 n \in {None, Some("n")}}
        \cup {AstIngredient({"REF"}, "salt", Some(OneQuantity), None, None)}

NextResolve ==
    \/ \E v \in {"all", "steps"} :
          lines < MaxLinesResolve /\ MetadataLine(<<"[", "mode", "]">>, v)
    \/ \E v \in {"reference", "new"} :
          lines < MaxLinesResolve /\ MetadataLine(<<"[", "duplicate", "]">>, v)
    \/ \E c \in ResolveComponents :
          lines < MaxLinesResolve /\ StepLine(FALSE, <<ComponentItem(c)>>)
    \/ Finish
SpecResolve == InitRefs /\ [][NextResolve]_vars

\* the step from walker to walker' took a line of one ingredient without
\* intermediate data or of one cookware, and the walker went on
ResolvedLine ==
    /\ lines' = lines + 1
    /\ line'.kind = "Step"
    /\ Len(line'.items) = 1
    /\ line'.items[1].kind = "Component"
    /\ line'.items[1].c.kind \in {"Ingredient", "Cookware"}
    /\ line'.items[1].c.kind = "Ingredient" => line'.items[1].c.intermediate_data = None
    /\ walker'.panic = "none"

\* the component as written, its kind, the list before and the component
\* the walker appended
Written == line'.items[1].c
WrittenKind == IF Written.kind = "Ingredient" THEN "ingredient" ELSE "cookware"
Earlier == all(walker.content, WrittenKind)
Appended == Last(all(walker'.content, WrittenKind))

\* the errors the step recorded
NewErrors ==
    SubSeq(walker'.context.errors, Len(walker.context.errors) + 1,
           Len(walker'.context.errors))

\* the 0-based indices of the earlier components of the same lowercase name
\* that are no reference: by_relation reads that as a relation that is not a
\* Reference, otherwise as the absence of the REF modifier
SameNameDefinitions(by_relation) ==
    {d \in 0..(Len(Earlier) - 1) :
        /\ IF by_relation THEN At(Earlier, d).relation.kind # "Reference"
           ELSE "REF" \notin At(Earlier, d).modifiers
        /\ to_lowercase(At(Earlier, d).name) = to_lowercase(text_trimmed(Written.name))}

C21_Step(by_relation) ==
    ResolvedLine =>
        LET definitions == SameNameDefinitions(by_relation)
            becomes_reference ==
                /\ "NEW" \notin Written.modifiers
                /\ \/ "REF" \in Written.modifiers
                   \/ walker.define_mode = "Steps"
                   \/ (walker.duplicate_mode = "Reference" /\ definitions # {})
                /\ definitions # {}
        IN
            /\ Len(all(walker'.content, WrittenKind)) = Len(Earlier) + 1
            /\ Appended.relation.kind = "Reference" <=> becomes_reference
            /\ becomes_reference =>
                  /\ Appended.relation.index \in definitions
                  /\ \A d \in definitions : d <= Appended.relation.index
            /\ \A e \in 1..Len(NewErrors) :
                  "implicit" \in DOMAIN NewErrors[e].data
                  => NewErrors[e].data.implicit
                         = (becomes_reference /\ "REF" \notin Written.modifiers)

\* C21 as stated, a definition being a component whose relation is not a
\* Reference: the new component becomes a reference exactly when NEW is
\* absent, and REF is set or the define mode is Steps or the duplicate mode
\* is Reference with a same-name definition, and a same-name definition
\* exists; the target is the largest such index and the implicit flag is
\* true exactly when the component was written without REF
C21_ResolveByRelation == [][C21_Step(TRUE)]_vars

\* C21 with a definition being a component that does not carry the REF
\* modifier: the same condition, target and implicit flag
C21_ResolveByModifier == [][C21_Step(FALSE)]_vars

\* the third ingredient is written with REF under another spelling and
\* refers to the second of two definitions of the name
C21_Witness ==
    /\ Len(walker.content.ingredients) = 3
    /\ line.kind = "Step"
    /\ line.items[1].c.name = "Salt "
    /\ "REF" \notin walker.content.ingredients[2].modifiers
    /\ walker.content.ingredients[3].relation.kind = "Reference"
    /\ walker.content.ingredients[3].relation.index = 1

\* the back links of the list of one kind of a walker are sound: every index
\* in referenced_from of a definition is a later component that is a
\* reference to it, every such reference is listed, and a component that
\* carries REF without being a reference has no back link
BackLinksSound(list) ==
    \A d \in 0..(Len(list) - 1) :
        At(list, d).relation.kind = "Definition" =>
            LET from == At(list, d).relation.referenced_from
                referring == {r \in 0..(Len(list) - 1) :
                                 /\ At(list, r).relation.kind = "Reference"
                                 /\ "target" \in DOMAIN At(list, r).relation
                                       => At(list, r).relation.target = "IngredientTarget"
                                 /\ At(list, r).relation.index = d}
            IN /\ \A j \in 1..Len(from) : from[j] > d /\ from[j] \in referring
               /\ Len(from) = Cardinality(referring)
               /\ "REF" \in At(list, d).modifiers => from = <<>>

\* the step kept every back link of the earlier components and appended a
\* definition without back links
NoBackLinkAdded ==
    /\ Appended.relation = [kind |-> "Definition", referenced_from |-> <<>>]
    /\ \A d \in 1..Len(Earlier) :
          all(walker'.content, WrittenKind)[d].relation = Earlier[d].relation

C22_Step ==
    /\ BackLinksSound(walker'.content.ingredients)
    /\ BackLinksSound(walker'.content.cookware)
    /\ ResolvedLine =>
          /\ {"REF", "NEW"} \subseteq Written.modifiers =>
                /\ \E e \in 1..Len(NewErrors) :
                      NewErrors[e].kind = "ConflictingModifiersInReference"
                /\ NoBackLinkAdded
          /\ (\E e \in 1..Len(NewErrors) : NewErrors[e].kind = "ReferenceNotFound") =>
                /\ SameNameDefinitions(FALSE) = {}
                /\ NoBackLinkAdded
          /\ ("REF" \in Written.modifiers /\ "NEW" \notin Written.modifiers
                 /\ SameNameDefinitions(FALSE) = {}) =>
                \E e \in 1..Len(NewErrors) : NewErrors[e].kind = "ReferenceNotFound"

\* C22: every index in referenced_from of a definition is a later component
\* of the same kind whose relation is a Reference to that definition; a
\* component written with REF and NEW gets the conflicting modifiers error,
\* a reference without a same-name definition gets ReferenceNotFound, and
\* both keep the relation Definition, add no back link and are never the
\* target of a later reference while they carry REF
C22_BackLinksAreReferences == [][C22_Step]_vars

\* a definition, a component written with REF and NEW that stayed a
\* definition, and a reference that went to the first of them
C22_Witness ==
    /\ Len(walker.content.ingredients) = 3
    /\ {"REF", "NEW"} \subseteq walker.content.ingredients[2].modifiers
    /\ walker.content.ingredients[2].relation.kind = "Definition"
    /\ walker.content.ingredients[1].relation.kind = "Definition"
    /\ walker.content.ingredients[1].relation.referenced_from = <<2>>
    /\ walker.content.ingredients[3].relation.kind = "Reference"

C23_Step ==
    (ResolvedLine /\ Appended.relation.kind = "Reference") =>
        LET d == At(Earlier, Appended.relation.index)
            mask == IF Written.kind = "Ingredient" THEN {"HIDDEN", "OPT", "RECIPE"}
                    ELSE {"HIDDEN", "OPT"}
            passed_on == d.modifiers \cap mask
            conflicting == \E e \in 1..Len(NewErrors) :
                               NewErrors[e].kind = "ConflictingModifiersInReference"
        IN
            /\ "REF" \in Appended.modifiers
            /\ passed_on \subseteq Appended.modifiers
            /\ conflicting <=> (Written.modifiers \ {"REF"}) \ passed_on # {}
            /\ ~conflicting => Appended.modifiers = passed_on \cup {"REF"}

\* C23: a component resolved as a reference to the definition d ends with
\* REF and with every modifier of d inside the inherit mask of its kind; the
\* ConflictingModifiersInReference error is recorded exactly when it was
\* written with a modifier other than REF that d does not pass on; without
\* the error its modifiers are exactly (d.modifiers & mask) | REF
C23_InheritedModifiers == [][C23_Step]_vars

\* a recipe ingredient, a reference that inherits RECIPE without an error
\* and a reference written with OPT, which the definition does not have
C23_Witness ==
    /\ Len(walker.content.ingredients) = 3
    /\ walker.content.ingredients[1].modifiers = {"RECIPE"}
    /\ walker.content.ingredients[2].relation.kind = "Reference"
    /\ walker.content.ingredients[2].modifiers = {"REF", "RECIPE"}
    /\ walker.content.ingredients[3].relation.kind = "Reference"
    /\ walker.content.ingredients[3].modifiers = {"REF", "OPT", "RECIPE"}
    /\ Len(walker.context.errors) = 1
    /\ walker.context.errors[1].kind = "ConflictingModifiersInReference"
    /\ walker.context.errors[1].data.conflict = {"OPT"}

C24_Step ==
    ResolvedLine =>
        LET
            \* the errors of the step about a part that a reference may not have
            part_errors == {e \in 1..Len(NewErrors) :
                               NewErrors[e].kind = "ComponentPartNotAllowedInReference"}
            \* the parts the written component has and a reference may not have
            disallowed == (IF IsSome(Written.note) THEN {"note"} ELSE {})
                          \cup (IF Written.kind = "Cookware" /\ IsSome(Written.quantity)
                                THEN {"quantity"} ELSE {})
        IN
            IF Appended.relation.kind = "Reference"
            THEN /\ {NewErrors[e].data.what : e \in part_errors} = disallowed
                 /\ Cardinality(part_errors) = Cardinality(disallowed)
                 /\ \A e \in part_errors :
                       /\ NewErrors[e].data.container = WrittenKind
                       /\ NewErrors[e].data.implicit = ("REF" \notin Written.modifiers)
                 /\ Len(all(walker'.content, WrittenKind)) = Len(Earlier) + 1
                 /\ \E j \in 1..Len(At(all(walker'.content, WrittenKind),
                                        Appended.relation.index).relation.referenced_from) :
                       At(all(walker'.content, WrittenKind),
                          Appended.relation.index).relation.referenced_from[j]
                           = Len(Earlier)
            ELSE part_errors = {}

\* C24: a component resolved as a reference gets one
\* ComponentPartNotAllowedInReference error for its note, and one for its
\* quantity when it is a cookware, and none else; each carries the implicit
\* flag of the resolver; the reference is appended to its list and its index
\* is in referenced_from of the definition; a component that is no
\* reference gets no such error
C24_PartsNotAllowed == [][C24_Step]_vars

\* an implicit cookware reference with a note and a quantity, both reported
C24_Witness ==
    /\ Len(walker.content.cookware) = 2
    /\ walker.content.cookware[2].relation.kind = "Reference"
    /\ walker.content.cookware[1].relation.referenced_from = <<1>>
    /\ Len(walker.context.errors) = 2
    /\ walker.context.errors[1].kind = "ComponentPartNotAllowedInReference"
    /\ walker.context.errors[1].data.what = "note"
    /\ walker.context.errors[1].data.implicit
    /\ walker.context.errors[2].kind = "ComponentPartNotAllowedInReference"
    /\ walker.context.errors[2].data.what = "quantity"

(* --------------- specification: intermediate references --------------- *)
MaxLinesIntermediate == 4
MaxVal == 2

\* ingredients that refer to a step or a section by index or relative, with
\* the modifier such a reference needs
IntermediateRefs ==
    {AstIngredient({"REF"}, "salt", None, None, Some(IntermediateData(k, m, val))) :
        k \in {"Step", "Section"}, m \in {"Index", "Relative"}, val \in 0..MaxVal}

NextIntermediate ==
    \/ \E c \in IntermediateRefs :
          lines < MaxLinesIntermediate /\ StepLine(FALSE, <<ComponentItem(c)>>)
    \/ \E t \in BOOLEAN :
          lines < MaxLinesIntermediate /\ StepLine(t, <<TextItem(<<"a">>)>>)
    \/ lines < MaxLinesIntermediate /\ SectionLine(Some("Salt "))
    \/ Finish
SpecIntermediate == InitRefs /\ [][NextIntermediate]_vars

\* the step from walker to walker' took a line of one ingredient with
\* intermediate data
IntermediateLine ==
    /\ lines' = lines + 1
    /\ line'.kind = "Step"
    /\ Len(line'.items) = 1
    /\ line'.items[1].kind = "Component"
    /\ line'.items[1].c.kind = "Ingredient"
    /\ line'.items[1].c.intermediate_data # None

C25_Step ==
    (IntermediateLine /\ Unwrap(Written.intermediate_data).val >= 0) =>
        LET data == Unwrap(Written.intermediate_data)
            steps == walker.current_section.steps
            sections == walker.content.sections
            \* the 0-based indices of the non-text steps of the section
            numbered == {i \in 0..(Len(steps) - 1) : At(steps, i).number # None}
            \* the 0-based index of the val-th of them counted from the end
            backwards == {i \in numbered :
                             Cardinality({j \in numbered : j >= i}) = data.val}
            \* the slots the statement lets the reference go to
            targets ==
                IF data.ref_mode = "Relative" /\ data.val = 0 THEN {}
                ELSE IF data.target_kind = "Step" /\ data.ref_mode = "Index"
                THEN IF data.val < Len(steps) THEN {data.val} ELSE {}
                ELSE IF data.target_kind = "Step" THEN backwards
                ELSE IF data.ref_mode = "Index"
                THEN IF data.val < Len(sections) THEN {data.val} ELSE {}
                ELSE IF data.val <= Len(sections) THEN {Len(sections) - data.val}
                ELSE {}
            invalid == \E e \in 1..Len(NewErrors) :
                           /\ NewErrors[e].kind = "InvalidIntermediateReferece"
                           /\ NewErrors[e].span[3] = "intermediate"
        IN
            /\ walker'.panic = "none"
            /\ Len(walker'.content.ingredients) = Len(Earlier) + 1
            /\ IF targets # {}
               THEN /\ ~invalid
                    /\ Appended.relation.kind = "Reference"
                    /\ Appended.relation.index \in targets
                    /\ Appended.relation.target
                          = (IF data.target_kind = "Step" THEN "StepTarget"
                             ELSE "SectionTarget")
                    /\ Appended.relation.index
                          < (IF data.target_kind = "Step" THEN Len(steps)
                             ELSE Len(sections))
                    /\ (data.target_kind = "Step" /\ data.ref_mode = "Relative")
                          => At(steps, Appended.relation.index).number # None
               ELSE /\ invalid
                    /\ Appended.relation.kind = "Definition"

\* C25: resolve_intermediate_ref with val >= 0 gives a Reference to an
\* existing slot or the InvalidIntermediateReferece error: (Step, Index) goes
\* to step val iff val is below the number of steps of the current section,
\* (Step, Relative) to the val-th non-text step from the end and never to a
\* text step, (Section, Index) to section val iff val is below the number of
\* emitted sections, (Section, Relative) to section len - val iff val <= len,
\* and a Relative reference with val = 0 is an error
C25_IntermediateTargets == [][C25_Step]_vars

\* a relative reference went over a text step to the first step of the
\* section
C25_Witness ==
    /\ Len(walker.current_section.steps) = 4
    /\ walker.current_section.steps[2].number = None
    /\ walker.current_section.steps[3].number # None
    /\ Len(walker.content.ingredients) = 1
    /\ line.kind = "Step"
    /\ line.items[1].kind = "Component"
    /\ Unwrap(line.items[1].c.intermediate_data).ref_mode = "Relative"
    /\ Unwrap(line.items[1].c.intermediate_data).val = 2
    /\ walker.content.ingredients[1].relation.kind = "Reference"
    /\ walker.content.ingredients[1].relation.index = 0

C26_Step(with_ref) ==
    (/\ IntermediateLine
     /\ Unwrap(Written.intermediate_data).val >= 0
     /\ resolve_intermediate_ref(walker, Unwrap(Written.intermediate_data),
                                 <<lines', 1>>).ok
     /\ \/ "REF" \notin Written.modifiers
        \/ Written.modifiers \cap {"RECIPE", "HIDDEN", "NEW"} # {}
     /\ with_ref => "REF" \in Written.modifiers) =>
        /\ walker'.panic = "none"
        /\ pc' = "walk"
        /\ \E e \in 1..Len(NewErrors) :
              /\ NewErrors[e].kind = "InvalidIntermediateReferece"
              /\ NewErrors[e].span[3] = "modifiers"
        /\ Len(walker'.content.ingredients) = Len(walker.content.ingredients) + 1

\* C26: an ingredient with intermediate data whose target resolves and
\* whose modifiers break the requirement (REF missing, or one of RECIPE,
\* HIDDEN, NEW present) gets an error, is appended, and the walk goes on:
\* the analyzer does not abort
C26_ModifierRequirementIsError == [][C26_Step(FALSE)]_vars

\* C26 for the ingredients that carry REF: one of RECIPE, HIDDEN, NEW is
\* reported as an error and the walk goes on
C26_ForbiddenModifierIsError == [][C26_Step(TRUE)]_vars

\* a reference to the first step written with REF and HIDDEN, reported
C26_Witness ==
    /\ walker.panic = "none"
    /\ line.kind = "Step"
    /\ line.items[1].c.kind = "Ingredient"
    /\ line.items[1].c.intermediate_data # None
    /\ "HIDDEN" \in line.items[1].c.modifiers
    /\ Last(walker.content.ingredients).relation.kind = "Reference"
    /\ Last(walker.content.ingredients).relation.target = "StepTarget"
    /\ \E e \in 1..Len(walker.context.errors) :
          /\ walker.context.errors[e].kind = "InvalidIntermediateReferece"
          /\ walker.context.errors[e].span[3] = "modifiers"

(* -------------------- specification: special keys --------------------- *)
MaxLinesModes == 3

\* metadata lines: the special keys with recognised and unrecognised
\* values, a key with blanks around the brackets, an unknown special key and
\* an ordinary key
ModeLines ==
    {<<<<"[", "mode", "]">>, v>> : v \in {"all", "components", "steps", "text", "bogus"}}
    \cup {<<<<" ", "[", "define", "]", " ">>, v>> : v \in {"default", "ingredients"}}
    \cup {<<<<"[", "duplicate", "]">>, v>> : v \in {"new", "reference", "ref", "bogus"}}
    \cup {<<<<"[", "auto scale", "]">>, v>> : v \in {"true", "false", "bogus"}}
    \cup {<<<<"[", "auto_scale", "]">>, v>> : v \in {"default", "true"}}
    \cup {<<<<"[", "other", "]">>, "true">>}
    \cup {<<<<"title">>, v>> : v \in {"true", "steps"}}

InitModes == \E extensions \in {{}, {MODES}} : WalkInit(parse_ast(extensions, TRUE, None))

NextModes ==
    \/ \E l \in ModeLines : lines < MaxLinesModes /\ MetadataLine(l[1], l[2])
    \/ Finish
SpecModes == InitModes /\ [][NextModes]_vars

\* the three settings of a walker
Settings(w) == <<w.define_mode, w.duplicate_mode, w.auto_scale_ingredients>>

C27_Step ==
    /\ lines = 0 => Settings(walker) = <<"All", "New", FALSE>>
    /\ (lines' = lines + 1 /\ line'.kind = "Metadata") =>
          LET
              \* the key without the blanks around it and the name in the brackets
              key_t == SelectSeq(line'.key, LAMBDA atom : atom # " ")
              special == /\ MODES \in walker.extensions
                         /\ Len(key_t) >= 2
                         /\ key_t[1] = "[" /\ key_t[Len(key_t)] = "]"
              name == SubSeq(key_t, 2, Len(key_t) - 1)
              v == line'.value
              \* the value the line assigns to each setting, None for no assignment
              define == IF name \in {<<"define">>, <<"mode">>}
                        THEN CASE v \in {"all", "default"} -> Some("All")
                               [] v \in {"components", "ingredients"} -> Some("Components")
                               [] v = "steps" -> Some("Steps")
                               [] v = "text" -> Some("Text")
                               [] OTHER -> None
                        ELSE None
              duplicate == IF name = <<"duplicate">>
                           THEN CASE v \in {"new", "default"} -> Some("New")
                                  [] v \in {"reference", "ref"} -> Some("Reference")
                                  [] OTHER -> None
                           ELSE None
              auto_scale == IF name \in {<<"auto scale">>, <<"auto_scale">>}
                            THEN CASE v = "true" -> Some(TRUE)
                                   [] v \in {"false", "default"} -> Some(FALSE)
                                   [] OTHER -> None
                            ELSE None
              known_key == name \in {<<"define">>, <<"mode">>, <<"duplicate">>,
                                     <<"auto scale">>, <<"auto_scale">>}
              recognised == define # None \/ duplicate # None \/ auto_scale # None
              new_errors == Len(walker'.context.errors) - Len(walker.context.errors)
              new_warnings == Len(walker'.context.warnings) - Len(walker.context.warnings)
          IN
              IF special
              THEN /\ walker'.content.metadata = walker.content.metadata
                   /\ walker'.define_mode
                         = (IF define # None THEN Unwrap(define) ELSE walker.define_mode)
                   /\ walker'.duplicate_mode
                         = (IF duplicate # None THEN Unwrap(duplicate)
                            ELSE walker.duplicate_mode)
                   /\ walker'.auto_scale_ingredients
                         = (IF auto_scale # None THEN Unwrap(auto_scale)
                            ELSE walker.auto_scale_ingredients)
                   /\ (known_key /\ ~recognised) <=>
                         /\ new_errors = 1
                         /\ Last(walker'.context.errors).kind = "InvalidSpecialMetadataValue"
                   /\ known_key /\ recognised => new_errors = 0 /\ new_warnings = 0
                   /\ ~known_key <=>
                         /\ new_warnings = 1
                         /\ Last(walker'.context.warnings).kind = "UnknownSpecialMetadataKey"
              ELSE Settings(walker') = Settings(walker)

\* C27: the settings start as All, New and off; with MODES a bracketed key
\* with a recognised value assigns its setting and leaves the other two, an
\* unrecognised value records InvalidSpecialMetadataValue and changes no
\* setting, an unknown special key records a warning and changes nothing,
\* and no special key line changes the metadata map; without MODES no
\* metadata line changes a setting
C27_SpecialKeys == [][C27_Step]_vars

\* all three settings were assigned, the last line had an unrecognised
\* value and left them as they were
C27_Witness ==
    /\ Settings(walker) = <<"Steps", "Reference", FALSE>>
    /\ lines = 3
    /\ line.kind = "Metadata"
    /\ line.value = "bogus"
    /\ Len(walker.context.errors) = 1
    /\ walker.content.metadata.map = {}

(* ------------------ specification: components mode -------------------- *)
MaxLinesDefine == 3

\* the items of a line: texts with and without an alphanumeric character, a
\* text with a temperature, and components of the three kinds between them
DefineLines ==
    LET Salt == ComponentItem(AstIngredient({}, "salt", None, None, None))
        Pan == ComponentItem(AstCookware({}, "pan", None, None))
        Timer == ComponentItem(AstTimer(None, None))
    IN {<<TextItem(<<"a">>)>>,
        <<TextItem(<<"-">>)>>,
        <<TextItem(TemperatureText)>>,
        <<Salt>>,
        <<TextItem(<<"a">>), Salt, TextItem(<<"-">>)>>,
        <<Pan, Timer>>}

NextDefine ==
    \/ \E v \in {"components", "all"} :
          lines < MaxLinesDefine /\ MetadataLine(<<"[", "mode", "]">>, v)
    \/ \E t \in BOOLEAN, items \in DefineLines :
          lines < MaxLinesDefine /\ StepLine(t, items)
    \/ lines < MaxLinesDefine /\ SectionLine(None)
    \/ Finish
SpecDefine == InitContent /\ [][NextDefine]_vars

C28_Step(text_lines_too) ==
    (lines' = lines + 1 /\ line'.kind = "Step" /\ walker.define_mode = "Components") =>
        LET
            \* the positions of the components of a kind in the line
            written(kind) == {k \in 1..Len(line'.items) :
                                 /\ line'.items[k].kind = "Component"
                                 /\ line'.items[k].c.kind = kind}
            \* the positions of the texts with an alphanumeric character
            alphanumeric == {k \in 1..Len(line'.items) :
                                /\ line'.items[k].kind = "Text"
                                /\ \E i \in 1..Len(line'.items[k].text) :
                                      line'.items[k].text[i] \in {"a", "1", "C"}}
            new_warnings == SubSeq(walker'.context.warnings,
                                   Len(walker.context.warnings) + 1,
                                   Len(walker'.context.warnings))
            \* a list grew by the components of its kind
            grew(before, after, kind) == Len(after) = Len(before) + Cardinality(written(kind))
        IN
            /\ walker'.current_section = walker.current_section
            /\ walker'.content.sections = walker.content.sections
            /\ walker'.step_counter = walker.step_counter
            /\ walker'.content.inline_quantities = walker.content.inline_quantities
            /\ (text_lines_too \/ ~line'.is_text) =>
                  /\ grew(walker.content.ingredients, walker'.content.ingredients,
                          "Ingredient")
                  /\ grew(walker.content.cookware, walker'.content.cookware, "Cookware")
                  /\ grew(walker.content.timers, walker'.content.timers, "Timer")
            /\ (~text_lines_too /\ line'.is_text) =>
                  /\ walker'.content.ingredients = walker.content.ingredients
                  /\ walker'.content.cookware = walker.content.cookware
                  /\ walker'.content.timers = walker.content.timers
            /\ \A i \in (Len(walker.content.ingredients) + 1)
                          ..Len(walker'.content.ingredients) :
                  ~walker'.content.ingredients[i].defined_in_step
            /\ {new_warnings[w].span :
                    w \in {x \in 1..Len(new_warnings) :
                              new_warnings[x].kind = "TextDefiningIngredients"}}
                  = {Span(lines', k, "text") : k \in alphanumeric}

MaxTokens == 3

\* the tokens the lines are made of
StepAlphabet ==
    {Tok("@", "@"), Tok("#", "#"), Tok("~", "~"), Tok("word", "a"), Tok("ws", " "),
     Tok("{", "{"), Tok("}", "}"), Tok("(", "("), Tok(")", ")"), Tok(">", ">")}

\* every line of at most MaxTokens of these tokens, and longer lines with a
\* timer and a cookware that have a note, an ingredient with quantity, unit
\* and note, a modifier given twice and a name of two words before a brace
\* that is never closed
StepTokenLines ==
    UNION {[1..n -> StepAlphabet] : n \in 0..MaxTokens}
    \cup {<<Tok("~", "~"), Tok("word", "t"), Tok("(", "("), Tok("word", "n"),
             Tok(")", ")"), Tok("@", "@")>>,
           <<Tok("#", "#"), Tok("word", "pan"), Tok("(", "("), Tok("word", "n"),
             Tok(")", ")"), Tok("ws", " "), Tok("word", "a")>>,
           <<Tok("@", "@"), Tok("word", "salt"), Tok("{", "{"), Tok("int", "1"),
             Tok("%", "%"), Tok("word", "g"), Tok("}", "}"), Tok("(", "("),
             Tok("word", "n"), Tok(")", ")")>>,
           <<Tok("@", "@"), Tok("&", "&"), Tok("&", "&"), Tok("word", "salt")>>,
           <<Tok("@", "@"), Tok("word", "a"), Tok("ws", " "), Tok("word", "b"),
             Tok("{", "{")>>}

\* step, the match on the next token: the component parser that with_recover
\* runs, None for any other token
step_closure(lp) ==
    IF peek(lp) = "@" THEN parser_ingredient(lp)
    ELSE IF peek(lp) = "#" THEN parser_cookware(lp)
    ELSE IF peek(lp) = "~" THEN parser_timer(lp)
    ELSE Fail(lp)

\* an iteration that takes a failed component for an item without text
step_iteration_no_bump(st) ==
    IF peek(st.lp) \in {"@", "#", "~"}
       /\ with_recover(st.lp, step_closure(st.lp)).out # None
    THEN ParsedStep(with_recover(st.lp, step_closure(st.lp)).lp, FALSE,
                    Append(st.items,
                           [kind |-> "Component",
                            c |-> Unwrap(with_recover(st.lp, step_closure(st.lp)).out),
                            span |-> <<current_offset(st.lp),
                                       current_offset(
                                           with_recover(st.lp, step_closure(st.lp)).lp)>>]))
    ELSE ParsedStep(consume_while(st.lp, TokenKinds \ {"@", "#", "~"}).lp, FALSE,
                    Append(st.items,
                           [kind |-> "Text",
                            text |-> LineParser_text_at(
                                         current_offset(st.lp),
                                         consume_while(st.lp,
                                                       TokenKinds \ {"@", "#", "~"}).out)]))

\* step, one iteration of the loop: the line parser and the items after it
step_iteration(st) ==
    LET
        \* the item of a component and of a text
        component_item(r, start) ==
            [kind |-> "Component", c |-> Unwrap(r.out),
             span |-> <<start, current_offset(r.lp)>>]
        text_item(from, rc, start) ==
            [kind |-> "Text",
             text |-> LineParser_text_at(start, SubSeq(rc.lp.tokens, from.current + 1,
                                                      rc.lp.current))]
        \* r is the result of the match, under with_recover
        iteration_of(r, start) ==
            IF r.out # None
            THEN ParsedStep(r.lp, FALSE, Append(st.items, component_item(r, start)))
            ELSE ParsedStep(
                     consume_while(bump_any(r.lp), TokenKinds \ {"@", "#", "~"}).lp,
                     FALSE,
                     Append(st.items,
                            text_item(r.lp,
                                      consume_while(bump_any(r.lp),
                                                    TokenKinds \ {"@", "#", "~"}),
                                      start)))
    IN
        iteration_of(IF peek(st.lp) \in {"@", "#", "~"}
                     THEN with_recover(st.lp, step_closure(st.lp))
                     ELSE Fail(st.lp),
                     current_offset(st.lp))

\* the text marker of step: a text line, or a line that is forced to be
\* text, is one text of all that is left
StepMarker ==
    /\ pc = "step"
    /\ parser' = (IF consume(parser.lp, ">").out # None \/ line.force_text
                  THEN ParsedStep(
                           consume_rest(consume(parser.lp, ">").lp).lp,
                           consume(parser.lp, ">").out # None,
                           <<[kind |-> "Text",
                              text |-> LineParser_text_at(
                                           current_offset(consume(parser.lp, ">").lp),
                                           rest(consume(parser.lp, ">").lp))]>>)
                  ELSE ParsedStep(consume(parser.lp, ">").lp, FALSE, <<>>))
    /\ pc' = (IF consume(parser.lp, ">").out # None \/ line.force_text
              THEN "step_return" ELSE "step_loop")
    /\ UNCHANGED <<walker, lines, line, result, parsed, quantity_vars>>

\* one iteration of the loop of step; call records what with_recover was
\* given and what it returned
StepIteration ==
    /\ pc = "step_loop"
    /\ rest(parser.lp) # <<>>
    /\ parser' = step_iteration(parser)
    /\ call' = (IF peek(parser.lp) \in {"@", "#", "~"}
                THEN Some([op |-> "with_recover", old |-> parser.lp,
                           f |-> step_closure(parser.lp),
                           r |-> with_recover(parser.lp, step_closure(parser.lp))])
                ELSE None)
    /\ pc' = (IF parser'.lp.panic # "none" THEN "panic" ELSE "step_loop")
    /\ UNCHANGED <<walker, lines, line, result, parsed, grouped, recipe, cell, callers>>

\* the loop of step ends when nothing is left of the line
StepReturn ==
    /\ pc = "step_loop"
    /\ rest(parser.lp) = <<>>
    /\ pc' = "step_return"
    /\ UNCHANGED <<walker, lines, line, result, parser, parsed, quantity_vars>>

\* LineParser::finish on the line parser step returned
LineFinish ==
    /\ pc = "step_return"
    /\ parsed' = Some([is_text |-> parser.is_text, items |-> parser.items,
                       finish |-> LineParser_finish(parser.lp)])
    /\ pc' = (IF LineParser_finish(parser.lp) = "none" THEN "done" ELSE "panic")
    /\ UNCHANGED <<walker, lines, line, result, parser, quantity_vars>>

\* step is called on the line parser of a line
StepCall ==
    /\ pc = "line"
    /\ \E tokens \in StepTokenLines, force_text \in BOOLEAN,
          extensions \in {{}, {COMPONENT_MODIFIERS, COMPONENT_NOTE}} :
          /\ line' = [kind |-> "Tokens", tokens |-> tokens,
                      force_text |-> force_text]
          /\ parser' = ParsedStep(LineParser_new(1, 0, tokens, extensions),
                                  FALSE, <<>>)
    /\ pc' = "step"
    /\ UNCHANGED <<walker, lines, result, parsed, quantity_vars>>

InitStep ==
    /\ walker = parse_ast({}, TRUE, None)
    /\ lines = 0
    /\ line = NoLine
    /\ parser = Parser_new({})
    /\ result = None
    /\ parsed = None
    /\ pc = "line"
    /\ QuantityIdle

NextStep == StepCall \/ StepMarker \/ StepIteration \/ StepReturn \/ LineFinish

SpecStep == InitStep /\ [][NextStep]_vars

\* ENABLED <<StepIteration>>_vars, from its guard: the step assigns one value
\* to every variable, so it can be taken with a change when its guard holds
\* and the value of parser differs from the current one
StepIterationEnabled ==
    /\ pc = "step_loop"
    /\ rest(parser.lp) # <<>>
    /\ step_iteration(parser) # parser

\* the thread that called step takes the next step of step: weak fairness
\* of each step, that of the iteration written out with its enabling
\* condition
SpecStepFair ==
    /\ SpecStep
    /\ WF_vars(StepMarker)
    /\ WF_vars(StepReturn)
    /\ WF_vars(LineFinish)
    /\ ([]<>(~StepIterationEnabled) \/ []<><<StepIteration>>_vars)

\* C29: with_recover(f) leaves the cursor where it was before the call when
\* f returned None, however many tokens f consumed, and where f left it when
\* f returned a value; it returns what f returned; the errors and warnings f
\* recorded are kept in both cases; the note check of a timer or cookware,
\* which always returns None, consumes no token and leaves its warning
C29_Recover ==
    (call # None /\ Unwrap(call).op = "with_recover") =>
        LET
            \* the diagnostics before are a prefix of the diagnostics after
            kept(before, after) ==
                /\ Len(before) <= Len(after)
                /\ SubSeq(after, 1, Len(before)) = before
            recovered(c) ==
                /\ c.r.out = c.f.out
                /\ c.r.lp.current = (IF c.f.out = None THEN c.old.current
                                      ELSE c.f.lp.current)
                /\ c.r.lp.context = c.f.lp.context
                /\ kept(c.old.context.errors, c.r.lp.context.errors)
                /\ kept(c.old.context.warnings, c.r.lp.context.warnings)
            \* a note in parentheses follows the cursor
            note_follows(lp) == peek(lp) = "(" /\ position(rest(lp), {")"}) # None
            note_checked(lp, checked) ==
                /\ checked.current = lp.current
                /\ checked.context.errors = lp.context.errors
                /\ kept(lp.context.warnings, checked.context.warnings)
                /\ Len(checked.context.warnings) - Len(lp.context.warnings)
                      = (IF extension(lp, COMPONENT_NOTE) /\ note_follows(lp)
                         THEN 1 ELSE 0)
            \* the component came out of a parser that checks for a note
            note_check_left(c) ==
                (/\ c.r.out # None
                 /\ Unwrap(c.r.out).kind \in {"Timer", "Cookware"}
                 /\ extension(c.r.lp, COMPONENT_NOTE)
                 /\ note_follows(c.r.lp)) =>
                    \E w \in (Len(c.old.context.warnings) + 1)
                                ..Len(c.r.lp.context.warnings) :
                        c.r.lp.context.warnings[w].kind = "ComponentPartIgnored"
        IN
            /\ recovered(Unwrap(call))
            /\ note_checked(Unwrap(call).old, check_note(Unwrap(call).old, "timer"))
            /\ note_checked(Unwrap(call).r.lp, check_note(Unwrap(call).r.lp, "cookware"))
            /\ note_check_left(Unwrap(call))

\* the ingredient parser consumed its sigil and failed, the cursor is back
\* before the sigil, and the warning of the note check of the timer earlier
\* in the line is still there
C29_Witness ==
    /\ call # None
    /\ Unwrap(call).f.out = None
    /\ Unwrap(call).f.lp.current > Unwrap(call).old.current
    /\ Unwrap(call).r.lp.current = Unwrap(call).old.current
    /\ Len(Unwrap(call).r.lp.context.warnings) = 1

C30_Step ==
    LET
        tokens == parser.lp.tokens
        \* the line parser of the line before step ran
        fresh == LineParser_new(parser.lp.line_no, parser.lp.base_offset, tokens,
                                parser.lp.extensions)
        \* the item the iteration pushed
        pushed == Last(parser'.items)
    IN
        /\ (pc = "step_loop" /\ pc' # "step_return") =>
              /\ pc' = "step_loop"
              /\ parser'.lp.panic = "none"
              /\ parser'.lp.current > parser.lp.current
              /\ parser'.lp.current <= Len(tokens)
              /\ Len(parser'.items) = Len(parser.items) + 1
              /\ pushed.kind = "Component" =>
                    /\ tokens[parser.lp.current + 1].kind \in {"@", "#", "~"}
                    /\ call' # None /\ Unwrap(call').f.out # None
              /\ pushed.kind = "Text" =>
                    /\ call' # None => Unwrap(call').f.out = None
                    /\ pushed.text
                          = LineParser_text_at(
                                current_offset(parser.lp),
                                SubSeq(tokens, parser.lp.current + 1, parser'.lp.current))
        /\ pc' = "step_return" => parser'.lp.current = Len(tokens)
        /\ (pc = "step_return" /\ pc' # pc) =>
              /\ pc' = "done"
              /\ Unwrap(parsed').finish = "none"
              /\ Unwrap(parsed').items = parser_step(fresh, line.force_text).items
              /\ Unwrap(parsed').is_text = parser_step(fresh, line.force_text).is_text

\* C30: every iteration of the item loop of step moves the cursor forward by
\* at least one token and pushes one item, a component that starts with its
\* sigil or, after a component parser failed and the cursor was rolled back,
\* a text of at least one token; when step returns every token of the line
\* is consumed and the assertion of LineParser::finish holds; every call of
\* step returns
C30_StepTerminates == [][C30_Step]_vars /\ ((pc = "step") ~> (pc = "done"))

\* step returned after a text that took the place of a component that
\* failed, one sigil long, and the component behind it
C30_Witness ==
    /\ pc = "done"
    /\ Len(line.tokens) = 3
    /\ line.tokens[1].kind = "@"
    /\ line.tokens[2].kind = "#"
    /\ Len(Unwrap(parsed).items) = 2
    /\ Unwrap(parsed).items[1].kind = "Text"
    /\ Unwrap(parsed).items[2].kind = "Component"
    /\ Unwrap(parsed).finish = "none"
    /\ parser.lp.current = Len(line.tokens)

====
